---- MODULE Spec2Model ----
(***************************************************************************)
(* Model of the image-analyst repository: the /api/vision server handler   *)
(* (src/unnamed/part_000), the browser client (src/main.js) and the live   *)
(* audio session of the two narration scripts                              *)
(* (src/startup-audio-analysis.js, src/startup-vision-audio.js).           *)
(*                                                                         *)
(* Strings are sequences of symbols.  A symbol is a TLA+ string that       *)
(* stands for one character ("a", "{", a quote, a newline) or for a run of *)
(* characters that is never split ("data: ", "chunk", "json", "null";      *)
(* "<ticks>" is a run of three backticks).                                 *)
(***************************************************************************)
EXTENDS Integers, Sequences, FiniteSets, TLC

\* ----------------------------------------------------------------------
\* Strings
\* ----------------------------------------------------------------------

Last(s) == s[Len(s)]
Most(s) == SubSeq(s, 1, Len(s) - 1)

\* s.slice(i) with a 1-based start: the suffix of s from position i on.
SliceFrom(s, i) == IF i > Len(s) THEN <<>> ELSE SubSeq(s, i, Len(s))

RECURSIVE Concat(_)
Concat(ss) == IF ss = <<>> THEN <<>> ELSE Head(ss) \o Concat(Tail(ss))

\* s.startsWith(p, from i)
StartsWithAt(s, p, i) ==
    /\ i + Len(p) - 1 <= Len(s)
    /\ \A k \in 1..Len(p) : s[i + k - 1] = p[k]

\* String.prototype.split on one separator symbol: always at least one piece.
RECURSIVE SplitOn(_, _, _, _)
SplitOn(s, sep, i, cur) ==
    IF i > Len(s) THEN <<cur>>
    ELSE IF s[i] = sep THEN <<cur>> \o SplitOn(s, sep, i + 1, <<>>)
    ELSE SplitOn(s, sep, i + 1, Append(cur, s[i]))

Split(s, sep) == SplitOn(s, sep, 1, <<>>)

\* ----------------------------------------------------------------------
\* JSON values and JSON.parse / JSON.stringify
\* ----------------------------------------------------------------------

\* A JavaScript value: a tag and a payload that is always a sequence.
JNull      == [t |-> "null",  v |-> <<>>]
JUndef     == [t |-> "undef", v |-> <<>>]
JNum(n)    == [t |-> "num",   v |-> <<n>>]
JStr(s)    == [t |-> "str",   v |-> s]
JArr(xs)   == [t |-> "arr",   v |-> xs]
\* members: a sequence of [k |-> key string, v |-> value]
JObj(ms)   == [t |-> "obj",   v |-> ms]

Digits == {"0", "1"}
DigitVal(c) == IF c = "1" THEN 1 ELSE 0

\* JSON whitespace (and the regular expression class \s).
IsWs(c) == c \in {" ", "\n"}

RECURSIVE SkipWs(_, _)
SkipWs(s, i) == IF i <= Len(s) /\ IsWs(s[i]) THEN SkipWs(s, i + 1) ELSE i

\* A parse step: ok, the value, and the position after it.
ParseFail == [ok |-> FALSE, val |-> JNull, pos |-> 0]
ParseOk(val, pos) == [ok |-> TRUE, val |-> val, pos |-> pos]

Unescape(c) == IF c = "n" THEN "\n" ELSE c

\* The characters of a JSON string from position i (after the opening quote).
RECURSIVE ScanString(_, _, _)
ScanString(s, i, acc) ==
    IF i > Len(s) THEN ParseFail
    ELSE IF s[i] = "\"" THEN ParseOk(JStr(acc), i + 1)
    ELSE IF s[i] = "\\" THEN
        IF i + 1 <= Len(s) /\ s[i + 1] \in {"\"", "\\", "n"}
        THEN ScanString(s, i + 2, Append(acc, Unescape(s[i + 1])))
        ELSE ParseFail
    ELSE IF s[i] = "\n" THEN ParseFail
    ELSE ScanString(s, i + 1, Append(acc, s[i]))

\* A JSON number: a run of digits without a leading zero.
RECURSIVE ScanNumber(_, _, _)
ScanNumber(s, i, n) ==
    IF i <= Len(s) /\ s[i] \in Digits
    THEN ScanNumber(s, i + 1, 10 * n + DigitVal(s[i]))
    ELSE ParseOk(JNum(n), i)

ParseNumber(s, i) ==
    IF s[i] = "0" /\ i + 1 <= Len(s) /\ s[i + 1] \in Digits
    THEN ParseOk(JNum(0), i + 1)
    ELSE ScanNumber(s, i, 0)

RECURSIVE ParseValue(_, _), ParseMembers(_, _, _)
ParseValue(s, i0) ==
    LET i == SkipWs(s, i0) IN
    IF i > Len(s) THEN ParseFail
    ELSE IF s[i] = "null" THEN ParseOk(JNull, i + 1)
    ELSE IF s[i] \in Digits THEN ParseNumber(s, i)
    ELSE IF s[i] = "\"" THEN ScanString(s, i + 1, <<>>)
    ELSE IF s[i] = "{" THEN
        LET j == SkipWs(s, i + 1) IN
        IF j <= Len(s) /\ s[j] = "}" THEN ParseOk(JObj(<<>>), j + 1)
        ELSE ParseMembers(s, j, <<>>)
    ELSE ParseFail

ParseMembers(s, i, acc) ==
    IF i > Len(s) \/ s[i] # "\"" THEN ParseFail
    ELSE
        LET key == ScanString(s, i + 1, <<>>) IN
        IF ~key.ok THEN ParseFail
        ELSE
            LET c == SkipWs(s, key.pos) IN
            IF c > Len(s) \/ s[c] # ":" THEN ParseFail
            ELSE
                LET val == ParseValue(s, c + 1) IN
                IF ~val.ok THEN ParseFail
                ELSE
                    LET e    == SkipWs(s, val.pos)
                        acc2 == Append(acc, [k |-> key.val.v, v |-> val.val])
                    IN  IF e > Len(s) THEN ParseFail
                        ELSE IF s[e] = "}" THEN ParseOk(JObj(acc2), e + 1)
                        ELSE IF s[e] = ","
                             THEN ParseMembers(s, SkipWs(s, e + 1), acc2)
                        ELSE ParseFail

\* JSON.parse(s): ok is FALSE where JSON.parse throws a SyntaxError.
JSONParse(s) ==
    LET r == ParseValue(s, 1) IN
    IF r.ok /\ SkipWs(s, r.pos) > Len(s) THEN r ELSE ParseFail

EscapeChar(c) ==
    IF c = "\"" THEN <<"\\", "\"">>
    ELSE IF c = "\\" THEN <<"\\", "\\">>
    ELSE IF c = "\n" THEN <<"\\", "n">>
    ELSE <<c>>

RECURSIVE Escape(_)
Escape(s) == IF s = <<>> THEN <<>> ELSE EscapeChar(Head(s)) \o Escape(Tail(s))

\* JSON.stringify({ key: text }) for a string text.
StringifyPair(key, text) ==
    <<"{", "\"", key, "\"", ":", "\"">> \o Escape(text) \o <<"\"", "}">>

\* obj.key for a parsed value obj that is not null (undefined when absent).
RECURSIVE Lookup(_, _, _)
Lookup(ms, key, i) ==
    IF i = 0 THEN JUndef
    ELSE IF ms[i].k = <<key>> THEN ms[i].v
    ELSE Lookup(ms, key, i - 1)

Prop(val, key) == IF val.t = "obj" THEN Lookup(val.v, key, Len(val.v)) ELSE JUndef

\* JavaScript truthiness.
Truthy(val) ==
    CASE val.t = "str" -> val.v # <<>>
      [] val.t = "num" -> val.v[1] # 0
      [] val.t \in {"obj", "arr"} -> TRUE
      [] OTHER -> FALSE

RECURSIVE NumToStr(_)
NumToStr(n) ==
    IF n < 10 THEN <<IF n = 1 THEN "1" ELSE "0">>
    ELSE NumToStr(n \div 10) \o <<IF n % 10 = 1 THEN "1" ELSE "0">>

\* String(val), as `text += val` applies it.
ToStr(val) ==
    CASE val.t = "str" -> val.v
      [] val.t = "num" -> NumToStr(val.v[1])
      [] val.t = "obj" -> <<"[object Object]">>
      [] OTHER -> <<val.t>>

\* ----------------------------------------------------------------------
\* Result objects
\* ----------------------------------------------------------------------

\* A result object.  keys is the set of properties the object has; a property
\* outside keys is undefined and its field holds a placeholder.
NoResult ==
    [ keys        |-> {},
      success     |-> FALSE,
      text        |-> <<>>,
      code        |-> <<>>,
      codeResults |-> <<>>,
      parsedData  |-> JNull,
      error       |-> <<>> ]

\* A part of the model output: text, executableCode, codeExecutionResult, or a
\* null entry of the parts array.
TextPart(s)   == [kind |-> "text",   s |-> s]
CodePart(s)   == [kind |-> "code",   s |-> s]
ResultPart(s) == [kind |-> "result", s |-> s]
NullPart      == [kind |-> "null",   s |-> <<>>]

\* ----------------------------------------------------------------------
\* Server: parseAgenticResponse (buffered mode)
\* ----------------------------------------------------------------------

\* One iteration of `for (const part of parts)`; threw marks a TypeError
\* (property access on a null part), which leaves the loops.
FoldPart(r, part) ==
    IF part.kind = "null" THEN [r EXCEPT !.threw = TRUE]
    ELSE [r EXCEPT
            !.text        = IF part.kind = "text" /\ part.s # <<>>
                            THEN @ \o part.s ELSE @,
            !.code        = IF part.kind = "code"
                            THEN Append(@, JStr(part.s)) ELSE @,
            !.codeResults = IF part.kind = "result"
                            THEN Append(@, JStr(part.s)) ELSE @]

RECURSIVE FoldParts(_, _)
FoldParts(r, parts) ==
    IF parts = <<>> \/ r.threw THEN r
    ELSE FoldParts(FoldPart(r, Head(parts)), Tail(parts))

RECURSIVE FoldCandidates(_, _)
FoldCandidates(r, candidates) ==
    IF candidates = <<>> \/ r.threw THEN r
    ELSE FoldCandidates(FoldParts(r, Head(candidates)), Tail(candidates))

\* Mutant of parseAgenticResponse: JSON.parse(response.text) outside the inner
\* try/catch, so a SyntaxError reaches the outer catch.
parseAgenticResponseStrict(candidates) ==
    LET start  == [text |-> <<>>, code |-> <<>>, codeResults |-> <<>>,
                   threw |-> FALSE]
        walked == FoldCandidates(start, candidates)
        parse  == JSONParse(walked.text)
        threw  == walked.threw \/ ~parse.ok
    IN  [ keys        |-> {"success", "text", "code", "codeResults", "parsedData"}
                            \cup (IF threw THEN {"error"} ELSE {}),
          success     |-> ~threw,
          text        |-> walked.text,
          code        |-> walked.code,
          codeResults |-> walked.codeResults,
          parsedData  |-> IF ~threw THEN parse.val ELSE JNull,
          error       |-> IF walked.threw THEN <<"TypeError">>
                          ELSE IF threw THEN <<"SyntaxError">> ELSE <<>> ]

\* parseAgenticResponse(result), result.response.candidates = candidates.
parseAgenticResponse(candidates) ==
    LET start  == [text |-> <<>>, code |-> <<>>, codeResults |-> <<>>,
                   threw |-> FALSE]
        walked == FoldCandidates(start, candidates)
        parse  == JSONParse(walked.text)
    IN  [ keys        |-> {"success", "text", "code", "codeResults", "parsedData"}
                            \cup (IF walked.threw THEN {"error"} ELSE {}),
          success     |-> ~walked.threw,
          text        |-> walked.text,
          code        |-> walked.code,
          codeResults |-> walked.codeResults,
          parsedData  |-> IF ~walked.threw /\ parse.ok THEN parse.val ELSE JNull,
          error       |-> IF walked.threw THEN <<"TypeError">> ELSE <<>> ]

\* ----------------------------------------------------------------------
\* Server: events of the streaming mode
\* ----------------------------------------------------------------------

\* res.write(`data: ${JSON.stringify({ key: text })}\n\n`)
EventLine(key, text) == <<"data: ">> \o StringifyPair(key, text) \o <<"\n", "\n">>

DoneLine == <<"data: ", "[DONE]", "\n", "\n">>

\* chunk.candidates?.[0]?.content?.parts?.[0]?.text || ''
FirstPartText(parts) ==
    IF parts # <<>> /\ parts[1].kind = "text" THEN parts[1].s ELSE <<>>

\* The code / result events of the parts loop.  threw: a null part raises a
\* TypeError, after the events of the parts before it were written.
RECURSIVE PartEvents(_)
PartEvents(parts) ==
    IF parts = <<>> THEN [out |-> <<>>, threw |-> FALSE]
    ELSE IF Head(parts).kind = "null" THEN [out |-> <<>>, threw |-> TRUE]
    ELSE LET rest == PartEvents(Tail(parts))
             here == IF Head(parts).kind = "code"
                        THEN <<[key |-> "code", text |-> Head(parts).s]>>
                     ELSE IF Head(parts).kind = "result"
                        THEN <<[key |-> "result", text |-> Head(parts).s]>>
                     ELSE <<>>
         IN  [out |-> here \o rest.out, threw |-> rest.threw]

\* Mutant of ChunkEvents: the text event is written after the parts loop.
ChunkEventsTextLast(parts) ==
    LET text == FirstPartText(parts)
        pe   == PartEvents(parts)
    IN  [ out   |-> pe.out \o (IF text # <<>> THEN <<[key |-> "chunk", text |-> text]>>
                               ELSE <<>>),
          threw |-> pe.threw ]

\* The events the body of `for await (const chunk of stream.stream)` writes
\* for one upstream chunk, in order.
ChunkEvents(parts) ==
    LET text == FirstPartText(parts)
        pe   == PartEvents(parts)
    IN  [ out   |-> (IF text # <<>> THEN <<[key |-> "chunk", text |-> text]>>
                     ELSE <<>>) \o pe.out,
          threw |-> pe.threw ]

RECURSIVE RenderEvents(_)
RenderEvents(evs) ==
    IF evs = <<>> THEN <<>>
    ELSE EventLine(Head(evs).key, Head(evs).text) \o RenderEvents(Tail(evs))

\* ----------------------------------------------------------------------
\* Client: the streaming fold of analyzeWithStreaming
\* ----------------------------------------------------------------------

ProgressStep == 5
ProgressCap  == 90

Min(a, b) == IF a < b THEN a ELSE b

\* Mutant of FoldLine: `fullText = parsed.chunk` in place of `+=`.
FoldLineAssign(acc, line) ==
    LET p     == JSONParse(SliceFrom(line, 2))
        chunk == Prop(p.val, "chunk")
    IN  IF StartsWithAt(line, <<"data: ">>, 1) /\ p.ok /\ Truthy(chunk)
        THEN [acc EXCEPT !.fullText = ToStr(chunk)]
        ELSE acc

\* Mutant of FoldLine: `fullText = parsed.chunk + fullText`.
FoldLinePrepend(acc, line) ==
    LET p     == JSONParse(SliceFrom(line, 2))
        chunk == Prop(p.val, "chunk")
    IN  IF StartsWithAt(line, <<"data: ">>, 1) /\ p.ok /\ Truthy(chunk)
        THEN [acc EXCEPT !.fullText = ToStr(chunk) \o @]
        ELSE acc

\* The body of `for (const line of lines)` on the locals
\* acc = [fullText, codeBlocks, progress, log].
FoldLine(acc, line) ==
    IF ~StartsWithAt(line, <<"data: ">>, 1) THEN acc
    ELSE
        LET data == SliceFrom(line, 2) IN
        IF data = <<"[DONE]">> THEN acc
        ELSE
            LET p == JSONParse(data) IN
            IF ~p.ok \/ p.val.t = "null" THEN acc
            ELSE
                LET chunk  == Prop(p.val, "chunk")
                    code   == Prop(p.val, "code")
                    result == Prop(p.val, "result")
                IN  [ fullText   |-> IF Truthy(chunk)
                                     THEN acc.fullText \o ToStr(chunk)
                                     ELSE acc.fullText,
                      progress   |-> IF Truthy(chunk)
                                     THEN Min(acc.progress + ProgressStep, ProgressCap)
                                     ELSE acc.progress,
                      codeBlocks |-> IF Truthy(code)
                                     THEN Append(acc.codeBlocks, code)
                                     ELSE acc.codeBlocks,
                      log        |-> acc.log
                                       \o (IF Truthy(code) THEN <<"code">> ELSE <<>>)
                                       \o (IF Truthy(result) THEN <<"result">> ELSE <<>>) ]

\* A line the loop body skips: no `data: ` prefix, or a payload that is
\* neither [DONE] nor the JSON text of a value other than null.
Skipped(line) ==
    \/ ~StartsWithAt(line, <<"data: ">>, 1)
    \/ /\ SliceFrom(line, 2) # <<"[DONE]">>
       /\ \/ ~JSONParse(SliceFrom(line, 2)).ok
          \/ JSONParse(SliceFrom(line, 2)).val.t = "null"

\* Mutant of FoldLines: no try/catch, so a payload that fails to parse ends
\* the loop over the lines of the read.
RECURSIVE FoldLinesNoCatch(_, _)
FoldLinesNoCatch(acc, lines) ==
    IF lines = <<>> THEN acc
    ELSE IF StartsWithAt(Head(lines), <<"data: ">>, 1) /\ Skipped(Head(lines))
         THEN acc
    ELSE FoldLinesNoCatch(FoldLine(acc, Head(lines)), Tail(lines))

\* Mutant of FoldLines: `break` in place of `continue` at [DONE].
RECURSIVE FoldLinesBreakAtDone(_, _)
FoldLinesBreakAtDone(acc, lines) ==
    IF lines = <<>> THEN acc
    ELSE IF Head(lines) = <<"data: ", "[DONE]">> THEN acc
    ELSE FoldLinesBreakAtDone(FoldLine(acc, Head(lines)), Tail(lines))

RECURSIVE FoldLines(_, _)
FoldLines(acc, lines) ==
    IF lines = <<>> THEN acc
    ELSE FoldLines(FoldLine(acc, Head(lines)), Tail(lines))

\* One iteration of the read loop on the decoded text of one reader.read().
FoldRead(acc, chunk) == FoldLines(acc, Split(chunk, "\n"))

\* ----------------------------------------------------------------------
\* Client: tryParseJson, processResult, showError
\* ----------------------------------------------------------------------

\* First position >= i at which p occurs in s, 0 if there is none.
RECURSIVE FindFrom(_, _, _)
FindFrom(s, p, i) ==
    IF i + Len(p) - 1 > Len(s) THEN 0
    ELSE IF StartsWithAt(s, p, i) THEN i
    ELSE FindFrom(s, p, i + 1)

RECURSIVE RStrip(_)
RStrip(s) == IF s # <<>> /\ IsWs(Last(s)) THEN RStrip(SubSeq(s, 1, Len(s) - 1)) ELSE s

\* text.match(/```json\s*([\s\S]*?)\s*```/): the leftmost opening fence, the
\* greedy whitespace after it, and the shortest capture that is followed by
\* optional whitespace and a closing fence.
FenceMatch(text) ==
    LET open == FindFrom(text, <<"<ticks>", "json">>, 1) IN
    IF open = 0 THEN [found |-> FALSE, group |-> <<>>]
    ELSE
        LET from  == SkipWs(text, open + 2)
            close == FindFrom(text, <<"<ticks>">>, from)
        IN  IF close = 0 THEN [found |-> FALSE, group |-> <<>>]
            ELSE [found |-> TRUE,
                  group |-> RStrip(SubSeq(text, from, close - 1))]

tryParseJson(text) ==
    IF text = <<>> THEN JNull
    ELSE
        LET whole == JSONParse(text) IN
        IF whole.ok THEN whole.val
        ELSE
            LET m == FenceMatch(text) IN
            IF m.found /\ JSONParse(m.group).ok
            THEN JSONParse(m.group).val
            ELSE JNull

\* Array.prototype.join over values.
RECURSIVE Join(_, _)
Join(vals, sep) ==
    IF vals = <<>> THEN <<>>
    ELSE IF Len(vals) = 1 THEN ToStr(Head(vals))
    ELSE ToStr(Head(vals)) \o <<sep>> \o Join(Tail(vals), sep)

\* parsedData.processed_image_base64 || parsedData.result_image_base64
\*   || parsedData.annotated_base64
ImageOf(data) ==
    IF Truthy(Prop(data, "processed_image_base64"))
        THEN Prop(data, "processed_image_base64")
    ELSE IF Truthy(Prop(data, "result_image_base64"))
        THEN Prop(data, "result_image_base64")
    ELSE Prop(data, "annotated_base64")

\* The content of the main result pane.
Content(kind, data, text) == [kind |-> kind, data |-> data, text |-> text]

\* result.parsedData || tryParseJson(result.text)
DisplayData(result) ==
    IF "parsedData" \in result.keys /\ Truthy(result.parsedData)
    THEN result.parsedData
    ELSE tryParseJson(IF "text" \in result.keys THEN result.text ELSE <<>>)

\* processResult(result) on ui = [state, elements].
processResult(ui, result) ==
    LET parsedData == DisplayData(result)
        hasCode    == "code" \in result.keys /\ Len(result.code) > 0
    IN  [ state    |-> [ui.state EXCEPT !.lastResult = result],
          elements |-> [ui.elements EXCEPT
              !.copyResultBtnDisabled = FALSE,
              !.rawContent     = result,
              !.codeContent    = IF hasCode
                                 THEN Join(result.code, "\n\n# ---\n\n") ELSE @,
              !.resultContent  =
                  IF Truthy(parsedData)
                  THEN Content("parsed", parsedData, <<>>)
                  ELSE Content("text", JNull,
                               IF "text" \in result.keys /\ result.text # <<>>
                               THEN result.text ELSE <<"No result">>),
              !.processedImage = IF Truthy(parsedData) /\ Truthy(ImageOf(parsedData))
                                 THEN ImageOf(parsedData) ELSE @] ]

\* showError(message)
showError(ui, message) ==
    [ui EXCEPT !.elements.resultContent = Content("error", JNull, message)]

\* The finally block of analyzeImage.
Finally(ui) ==
    [ state    |-> [ui.state EXCEPT !.isProcessing = FALSE],
      elements |-> [ui.elements EXCEPT
                      !.analyzeBtnLoading  = FALSE,
                      !.analyzeBtnDisabled = FALSE,
                      !.progressFill       = 100] ]

\* ----------------------------------------------------------------------
\* State
\* ----------------------------------------------------------------------

VARIABLES
    state,          \* main.js `state`: currentImageBase64, isProcessing, lastResult
    elements,       \* the DOM elements main.js writes
    cpc,            \* where the client is: "idle", "fetchStreaming",
                    \* "fetchBuffered", "reading"
    fullText,       \* analyzeWithStreaming: fullText
    codeBlocks,     \* analyzeWithStreaming: codeBlocks
    progress,       \* analyzeWithStreaming: progress
    other,          \* a second call of analyzeImage that overlaps the first:
                    \* where it is, and the result it showed
    req,            \* the request in flight to /api/vision
    resp,           \* the response: status (0: no headers yet), body, ended
    wire,           \* response body text written by the server, not yet read
    spc,            \* where the /api/vision handler is: "idle", "stream", "chat"
    upstream,       \* output of the upstream model that is still to come
    upstreamThrows, \* the upstream call fails once that output is consumed
    hist,           \* history of the exchange, read by the properties only
    audioChunks,    \* startup-audio-analysis.js main: audioChunks
    session,        \* the binding `session`: "tdz" until connect has returned,
                    \* then "open", and "closed" after session.close()
    sessionComplete,\* the promise: "pending", "resolved", "rejected"
    epc,            \* where the promise executor is: "idle", "connecting", "done"
    apc,            \* where main is: "start", "awaiting", "playing", "exit0",
                    \* "exit1"
    channel,        \* the live channel: "none", "open", "closed"
    incoming,       \* messages the remote side has still to deliver
    sends,          \* the sends issued on the session, in order
    wavFile,        \* the file written: [written, bytes]
    cli,            \* the script that runs, what captureDesktop returned, and
                    \* analysisText and the analysis file of its vision stage
    ahist,          \* history of the session, read by the properties only
    wavIn,          \* the arguments of a call of createWavBuffer
    wavOut,         \* its outcome: [called, threw, bytes]
    env             \* process.env of the server and of the scripts

audioVars == <<audioChunks, session, sessionComplete, epc, apc, channel, incoming,
               sends, wavFile, cli, ahist>>

webVars == <<state, elements, cpc, fullText, codeBlocks, progress, other, req, resp,
             wire,
             spc, upstream, upstreamThrows, hist>>

wavVars == <<wavIn, wavOut>>

vars == <<webVars, audioVars, wavVars, env>>

clientVars == <<state, elements, cpc, fullText, codeBlocks, progress, other>>
serverVars == <<spc, upstream, upstreamThrows>>

\* process.env with and without GEMINI_API_KEY.
KeySet   == [GEMINI_API_KEY |-> JStr(<<"k">>)]
KeyUnset == [GEMINI_API_KEY |-> JUndef]

\* A request to /api/vision: the file of the multipart field `image`, and
\* `streaming` and `imageBase64` of the body.
NoReq  == [sent |-> FALSE, streaming |-> FALSE, imageBase64 |-> JNull,
           file |-> JUndef]
NoResp == [status |-> 0, body |-> NoResult, ended |-> "open"]

\* Exchanges one behaviour runs from the page.
MaxExchanges == 1

\* Analyses one behaviour runs one after the other.
MaxAnalyses == 3

\* A data URL as FileReader.readAsDataURL produces it for a file of the given
\* type.
DataUrl(type, base64) == JStr(<<"data:">> \o type \o <<";base64,">> \o base64)

MimePng == <<"image/", "png">>

ImageDataUrl == DataUrl(MimePng, <<"AAAA">>)

\* The symbols made of characters that \w matches.
WordSymbols == {"png", "jpeg", "svg", "xml", "pdf", "AAAA", "BBBB"}

\* The number of leading symbols that \w+ takes.
RECURSIVE WordRun(_)
WordRun(s) ==
    IF s # <<>> /\ Head(s) \in WordSymbols THEN 1 + WordRun(Tail(s)) ELSE 0

\* The number of symbols /^data:image\/\w+;base64,/ matches, 0 for no match.
DataUrlPrefix(s) ==
    IF Len(s) >= 2 /\ s[1] = "data:" /\ s[2] = "image/"
    THEN LET n == WordRun(SubSeq(s, 3, Len(s)))
         IN  IF n >= 1 /\ Len(s) >= 3 + n /\ s[3 + n] = ";base64,"
             THEN 3 + n ELSE 0
    ELSE 0

\* imageBase64.replace(/^data:image\/\w+;base64,/, '')
StripDataUrl(s) == SubSeq(s, DataUrlPrefix(s) + 1, Len(s))

\* imageBase64.match(/^data:(image\/\w+);base64,/): the group, or the default
\* 'image/png' that mimeType keeps when there is no match.
MimeTypeOf(s) ==
    IF DataUrlPrefix(s) > 0 THEN SubSeq(s, 2, DataUrlPrefix(s) - 1) ELSE MimePng

\* The image part of userMessage: JUndef when the request has neither a file
\* nor imageBase64.
InlineData(request) ==
    IF request.file # JUndef
    THEN [data |-> request.file.base64, mimeType |-> request.file.mimetype]
    ELSE IF Truthy(request.imageBase64)
    THEN [data     |-> StripDataUrl(request.imageBase64.v),
          mimeType |-> MimeTypeOf(request.imageBase64.v)]
    ELSE JUndef

UI == [state |-> state, elements |-> elements]

\* No second call of analyzeImage has begun.
NoOther == [pc |-> "none", result |-> NoResult]

NoHist ==
    [ exchanges   |-> 0,          \* exchanges begun so far
      sent        |-> <<>>,       \* the lines written to the response, in order
      wholeLines  |-> TRUE,       \* every read so far ended at a line end
      results     |-> 0,          \* calls of processResult
      errors      |-> 0,          \* calls of showError
      output      |-> <<>>,       \* the model output the server was given
      failed      |-> FALSE,      \* the upstream call failed
      handled     |-> <<>>,       \* per request the handler took: the request,
                                  \* the key in use and the image part of the
                                  \* model call, JUndef when none was made
      result      |-> NoResult,   \* the result handed to processResult
      before      |-> NoResult ]  \* state.lastResult when the exchange began

\* ----------------------------------------------------------------------
\* Client actions
\* ----------------------------------------------------------------------

\* A click on the analyze button: analyzeImage up to the await of fetch.
AnalyzeImage ==
    /\ ~elements.analyzeBtnDisabled
    /\ cpc = "idle"
    /\ hist.exchanges < MaxExchanges
    /\ IF state.currentImageBase64 = JNull
       THEN UNCHANGED vars
       ELSE /\ state' = [state EXCEPT !.isProcessing = TRUE]
            /\ elements' = [elements EXCEPT
                  !.analyzeBtnLoading  = TRUE,
                  !.analyzeBtnDisabled = TRUE,
                  !.progressHidden     = FALSE,
                  !.progressFill       = IF elements.streamingToggle THEN 0 ELSE 30,
                  !.progressLog        = IF elements.streamingToggle THEN <<>>
                                         ELSE <<"request">>,
                  !.resultContent      = Content("placeholder", JNull, <<>>)]
            /\ req' = [sent |-> TRUE, streaming |-> elements.streamingToggle,
                       imageBase64 |-> state.currentImageBase64,
                       file |-> JUndef]
            /\ cpc' = IF elements.streamingToggle THEN "fetchStreaming"
                      ELSE "fetchBuffered"
            /\ hist' = [NoHist EXCEPT !.exchanges = hist.exchanges + 1,
                                      !.before    = state.lastResult,
                                      !.handled   = hist.handled]
            /\ resp' = NoResp
            /\ wire' = <<>>
            /\ UNCHANGED <<fullText, codeBlocks, progress, serverVars, other, audioVars,
                           wavVars, env>>

\* Mutant of Fail: the catch block shows what the failed exchange had
\* accumulated before it shows the error.
FailShowsPartial(message) ==
    LET partial == [NoResult EXCEPT !.keys = {"text", "code"},
                                    !.text = fullText, !.code = codeBlocks]
        ui      == Finally(showError(processResult(UI, partial), message))
    IN  /\ state' = ui.state
        /\ elements' = ui.elements
        /\ cpc' = "idle"
        /\ hist' = [hist EXCEPT !.errors = @ + 1]

\* The catch and finally blocks of analyzeImage.
Fail(message) ==
    LET ui == Finally(showError(UI, message)) IN
    /\ state' = ui.state
    /\ elements' = ui.elements
    /\ cpc' = "idle"
    /\ hist' = [hist EXCEPT !.errors = @ + 1]

\* processResult(result), then the finally block of analyzeImage.
Succeed(result, ui0) ==
    LET ui == Finally(processResult(ui0, result)) IN
    /\ state' = ui.state
    /\ elements' = ui.elements
    /\ cpc' = "idle"
    /\ hist' = [hist EXCEPT !.results = @ + 1, !.result = result]

StatusText(n) == IF n = 500 THEN "500" ELSE IF n = 400 THEN "400" ELSE "200"

\* fetch resolves in analyzeWithStreaming: the status check.
StreamingResponse ==
    /\ cpc = "fetchStreaming" /\ resp.status # 0
    /\ IF resp.status # 200
       THEN /\ Fail(<<"API Error: ", StatusText(resp.status)>>)
            /\ UNCHANGED <<fullText, codeBlocks, progress>>
       ELSE /\ cpc' = "reading"
            /\ fullText' = <<>>
            /\ codeBlocks' = <<>>
            /\ progress' = 0
            /\ UNCHANGED <<state, elements, hist>>
    /\ UNCHANGED <<req, resp, wire, serverVars, other, audioVars, wavVars, env>>

\* reader.read() resolves with the next n symbols of the body, and the loop
\* body folds their lines.
Read(n) ==
    /\ cpc = "reading"
    /\ n \in 1..Len(wire)
    /\ LET chunk == SubSeq(wire, 1, n)
           acc   == FoldRead([fullText |-> fullText, codeBlocks |-> codeBlocks,
                              progress |-> progress,
                              log |-> elements.progressLog], chunk)
       IN  /\ fullText' = acc.fullText
           /\ codeBlocks' = acc.codeBlocks
           /\ progress' = acc.progress
           /\ elements' = [elements EXCEPT !.progressFill = acc.progress,
                                           !.progressLog  = acc.log]
           /\ wire' = SliceFrom(wire, n + 1)
           /\ hist' = [hist EXCEPT !.wholeLines = @ /\ Last(chunk) = "\n"]
    /\ UNCHANGED <<state, cpc, req, resp, serverVars, other, audioVars, wavVars, env>>

\* The result analyzeWithStreaming hands to processResult.
StreamResult(text, code) ==
    [NoResult EXCEPT !.keys = {"text", "code"}, !.text = text, !.code = code]

\* reader.read() resolves with done: the loop ends and the result is shown.
ReadDone ==
    /\ cpc = "reading"
    /\ wire = <<>> /\ resp.ended = "end"
    /\ Succeed(StreamResult(fullText, codeBlocks), UI)
    /\ fullText' = <<>> /\ codeBlocks' = <<>> /\ progress' = 0
    /\ UNCHANGED <<req, resp, wire, serverVars, other, audioVars, wavVars, env>>

\* reader.read() rejects: the connection was torn down, and what was still
\* in flight is lost.  The locals of analyzeWithStreaming end with the call.
ReadError ==
    /\ cpc = "reading"
    /\ resp.ended = "abort"
    /\ Fail(<<"network error">>)
    /\ fullText' = <<>> /\ codeBlocks' = <<>> /\ progress' = 0
    /\ wire' = <<>>
    /\ UNCHANGED <<req, resp, serverVars, other, audioVars, wavVars, env>>

\* fetch resolves in analyzeWithoutStreaming, and the body is read.
BufferedResponse ==
    /\ cpc = "fetchBuffered" /\ resp.status # 0
    /\ LET ui1 == [UI EXCEPT !.elements.progressFill = 60,
                             !.elements.progressLog  = Append(@, "response")]
       IN  IF resp.status # 200
           THEN LET ui == Finally(showError(ui1, resp.body.error)) IN
                /\ state' = ui.state
                /\ elements' = ui.elements
                /\ cpc' = "idle"
                /\ hist' = [hist EXCEPT !.errors = @ + 1]
           ELSE Succeed(resp.body, [ui1 EXCEPT !.elements.progressFill = 90])
    /\ UNCHANGED <<fullText, codeBlocks, progress, req, resp, wire, serverVars, other,
                   audioVars, wavVars, env>>

\* analyzeImage from its first statement to the await of fetch, on
\* ui = [state, elements].
Begin(ui) ==
    [ state    |-> [ui.state EXCEPT !.isProcessing = TRUE],
      elements |-> [ui.elements EXCEPT
          !.analyzeBtnLoading  = TRUE,
          !.analyzeBtnDisabled = TRUE,
          !.progressHidden     = FALSE,
          !.progressFill       = IF ui.elements.streamingToggle THEN 0 ELSE 30,
          !.progressLog        = IF ui.elements.streamingToggle THEN <<>>
                                 ELSE <<"request">>,
          !.resultContent      = Content("placeholder", JNull, <<>>)] ]

\* reader.onload of handleImageFile: a file that was dropped, pasted or
\* selected has been read.
LoadImage(image) ==
    /\ state' = [state EXCEPT !.currentImageBase64 = image]
    /\ elements' = [elements EXCEPT !.analyzeBtnDisabled = FALSE]
    /\ UNCHANGED <<cpc, fullText, codeBlocks, progress, other, req, resp, wire,
                   serverVars, hist, audioVars, wavVars, env>>

\* A click on the analyze button while a call of analyzeImage is in flight:
\* a second call begins.  Its request and its reads are its own.
OtherAnalyzeImage ==
    /\ ~elements.analyzeBtnDisabled
    /\ cpc # "idle" /\ other.pc = "none"
    /\ Truthy(state.currentImageBase64)
    /\ state' = Begin(UI).state
    /\ elements' = Begin(UI).elements
    /\ other' = [other EXCEPT !.pc = "running"]
    /\ UNCHANGED <<cpc, fullText, codeBlocks, progress, req, resp, wire,
                   serverVars, hist, audioVars, wavVars, env>>

\* The second call hands its result to processResult, and its finally block
\* runs.
OtherSucceeds(result) ==
    /\ other.pc = "running"
    /\ LET ui == Finally(processResult(UI, result)) IN
       /\ state' = ui.state
       /\ elements' = ui.elements
    /\ other' = [pc |-> "done", result |-> result]
    /\ UNCHANGED <<cpc, fullText, codeBlocks, progress, req, resp, wire,
                   serverVars, hist, audioVars, wavVars, env>>

\* The second call fails: its catch and finally blocks run.
OtherFails ==
    /\ other.pc = "running"
    /\ LET ui == Finally(showError(UI, <<"network error">>)) IN
       /\ state' = ui.state
       /\ elements' = ui.elements
    /\ other' = [other EXCEPT !.pc = "failed"]
    /\ UNCHANGED <<cpc, fullText, codeBlocks, progress, req, resp, wire,
                   serverVars, hist, audioVars, wavVars, env>>

\* A whole call of analyzeImage in streaming mode, from the click to the
\* finally block, whose stream gave the result handed to processResult.
CompleteAnalysis(result) ==
    /\ cpc = "idle" /\ ~elements.analyzeBtnDisabled
    /\ Truthy(state.currentImageBase64)
    /\ hist.exchanges < MaxAnalyses
    /\ LET ui == Finally(processResult(Begin(UI), result)) IN
       /\ state' = ui.state
       /\ elements' = ui.elements
    /\ hist' = [hist EXCEPT !.exchanges = @ + 1, !.results = @ + 1,
                            !.result = result, !.before = state.lastResult]
    /\ UNCHANGED <<cpc, fullText, codeBlocks, progress, other, req, resp, wire,
                   serverVars, audioVars, wavVars, env>>

\* A whole call of analyzeImage that ends in its catch block.
FailedAnalysis ==
    /\ cpc = "idle" /\ ~elements.analyzeBtnDisabled
    /\ Truthy(state.currentImageBase64)
    /\ hist.exchanges < MaxAnalyses
    /\ LET ui == Finally(showError(Begin(UI), <<"network error">>)) IN
       /\ state' = ui.state
       /\ elements' = ui.elements
    /\ hist' = [hist EXCEPT !.exchanges = @ + 1, !.errors = @ + 1,
                            !.before = state.lastResult]
    /\ UNCHANGED <<cpc, fullText, codeBlocks, progress, other, req, resp, wire,
                   serverVars, audioVars, wavVars, env>>

\* ----------------------------------------------------------------------
\* Server actions: app.post('/api/vision')
\* ----------------------------------------------------------------------

ErrorBody(message) ==
    [NoResult EXCEPT !.keys = {"error", "details"}, !.error = message]

\* Mutant of Catch: after the first res.write the catch block ends the
\* response with res.end().
CatchEndsResponse ==
    /\ resp' = IF resp.status = 0
               THEN [status |-> 500, body |-> ErrorBody(<<"upstream failed">>),
                     ended |-> "end"]
               ELSE [resp EXCEPT !.ended = "end"]
    /\ spc' = "idle"

\* The catch block of the handler.  Before the first res.write the status
\* and the JSON body are sent.  After it the headers are out, res.json
\* raises inside the catch block, no body is sent, and the rejected handler
\* ends with the connection torn down.
Catch ==
    /\ resp' = IF resp.status = 0
               THEN [status |-> 500, body |-> ErrorBody(<<"upstream failed">>),
                     ended |-> "end"]
               ELSE [resp EXCEPT !.ended = "abort"]
    /\ spc' = "idle"

\* The handler up to its first await: the image check and the mode switch.
ServerAccept ==
    /\ spc = "idle" /\ req.sent
    /\ req' = NoReq
    /\ IF InlineData(req) = JUndef
       THEN /\ resp' = [status |-> 400, body |-> ErrorBody(<<"no image">>),
                        ended |-> "end"]
            /\ spc' = "idle"
       ELSE /\ resp' = NoResp
            /\ spc' = IF req.streaming THEN "stream" ELSE "chat"
    /\ hist' = [hist EXCEPT
          !.output  = upstream,
          !.handled = Append(@, [request |-> req, key |-> env.GEMINI_API_KEY,
                                 status  |-> resp'.status,
                                 call    |-> InlineData(req)])]
    /\ UNCHANGED <<audioVars, wavVars, env, clientVars, wire, upstream, upstreamThrows>>

\* One iteration of `for await (const chunk of stream.stream)`.
ServerChunk ==
    /\ spc = "stream" /\ upstream # <<>>
    /\ LET ev == ChunkEvents(Head(upstream)) IN
       /\ wire' = wire \o RenderEvents(ev.out)
       /\ hist' = [hist EXCEPT !.sent = @ \o ev.out,
                               !.failed = @ \/ ev.threw]
       /\ LET written == IF ev.out # <<>> THEN [resp EXCEPT !.status = 200]
                         ELSE resp
          IN  IF ev.threw
              THEN /\ resp' = IF written.status = 0
                              THEN [status |-> 500,
                                    body |-> ErrorBody(<<"TypeError">>),
                                    ended |-> "end"]
                              ELSE [written EXCEPT !.ended = "abort"]
                   /\ spc' = "idle"
              ELSE /\ resp' = written
                   /\ spc' = spc
    /\ upstream' = Tail(upstream)
    /\ UNCHANGED <<audioVars, wavVars, env, clientVars, req, upstreamThrows>>

\* The upstream stream ends: the [DONE] event and res.end().
ServerDone ==
    /\ spc = "stream" /\ upstream = <<>> /\ ~upstreamThrows
    /\ wire' = wire \o DoneLine
    /\ resp' = [resp EXCEPT !.status = 200, !.ended = "end"]
    /\ spc' = "idle"
    /\ hist' = [hist EXCEPT !.sent = Append(@, [key |-> "done", text |-> <<>>])]
    /\ UNCHANGED <<audioVars, wavVars, env, clientVars, req, upstream, upstreamThrows>>

\* generateContentStream or the stream iterator raises.
ServerStreamThrows ==
    /\ spc = "stream" /\ upstream = <<>> /\ upstreamThrows
    /\ Catch
    /\ upstreamThrows' = FALSE
    /\ hist' = [hist EXCEPT !.failed = TRUE]
    /\ UNCHANGED <<audioVars, wavVars, env, clientVars, req, wire, upstream>>

\* chat.sendMessage settles: parseAgenticResponse and res.json, or the catch
\* block.
ServerChat ==
    /\ spc = "chat"
    /\ IF upstreamThrows
       THEN /\ Catch
            /\ hist' = [hist EXCEPT !.failed = TRUE]
       ELSE /\ resp' = [status |-> 200, body |-> parseAgenticResponse(upstream),
                        ended |-> "end"]
            /\ spc' = "idle"
            /\ hist' = hist
    /\ upstream' = <<>>
    /\ upstreamThrows' = FALSE
    /\ UNCHANGED <<audioVars, wavVars, env, clientVars, req, wire>>

\* ----------------------------------------------------------------------
\* Audio: createWavBuffer and the live session of startup-audio-analysis.js
\* (speakAnalysisWithAudio of startup-vision-audio.js has the same callbacks)
\* ----------------------------------------------------------------------

\* Defaults of createWavBuffer's parameters.
SampleRate == 24000
Channels   == 1
BitDepth   == 16

\* writeUInt32LE / writeUInt16LE: the bytes of n, least significant first.
LE32(n) == <<n % 256, (n \div 256) % 256, (n \div 65536) % 256,
             (n \div 16777216) % 256>>
LE16(n) == <<n % 256, (n \div 256) % 256>>

\* header.write of a four-letter tag: its character codes.
TagRIFF == <<82, 73, 70, 70>>
TagWAVE == <<87, 65, 86, 69>>
TagFmt  == <<102, 109, 116, 32>>
TagData == <<100, 97, 116, 97>>

\* A non-negative integer in base 256, least significant digit first.  The
\* numbers of createWavBuffer are doubles and exceed 32 bits for some inputs.
RECURSIVE Bytes(_)
Bytes(n) == IF n = 0 THEN <<>> ELSE <<n % 256>> \o Bytes(n \div 256)

\* bs * m + carry
RECURSIVE Times(_, _, _)
Times(bs, m, carry) ==
    IF bs = <<>> THEN Bytes(carry)
    ELSE LET v == Head(bs) * m + carry
         IN  <<v % 256>> \o Times(Tail(bs), m, v \div 256)

\* bs / d: the integer part q and the remainder r.
RECURSIVE Over(_, _)
Over(bs, d) ==
    IF bs = <<>> THEN [q |-> <<>>, r |-> 0]
    ELSE LET hi == Over(Tail(bs), d)
             v  == hi.r * 256 + Head(bs)
         IN  [q |-> <<v \div d>> \o hi.q, r |-> v % d]

\* A number: its integer part and whether it has a fractional part.
Whole(n)       == [int |-> Bytes(n), frac |-> FALSE]
Quotient(bs, d) == LET p == Over(bs, d) IN [int |-> p.q, frac |-> p.r # 0]

\* The check of writeUInt16LE / writeUInt32LE: value > 2^(8 * width) - 1
\* raises a RangeError.
OutOfRange(value, width) ==
    \/ \E i \in (width + 1)..Len(value.int) : value.int[i] # 0
    \/ /\ value.frac
       /\ Len(value.int) >= width
       /\ \A i \in 1..width : value.int[i] = 255

\* The bytes writeUInt16LE / writeUInt32LE store for a value in range: the
\* integer part, least significant byte first.
Stored(value, width) ==
    [i \in 1..width |-> IF i <= Len(value.int) THEN value.int[i] ELSE 0]

\* Mutant of createWavBuffer: the byte rate leaves out the channel count.
createWavBufferMonoRate(pcmBuffers, sampleRate, channels, bitDepth) ==
    LET pcmData    == Concat(pcmBuffers)
        byteRate   == Quotient(Times(Bytes(sampleRate), bitDepth, 0), 8)
        blockAlign == Quotient(Times(Bytes(channels), bitDepth, 0), 8)
        header     == TagRIFF \o LE32(36 + Len(pcmData)) \o TagWAVE
                      \o TagFmt \o LE32(16) \o LE16(1) \o LE16(channels)
                      \o LE32(sampleRate) \o Stored(byteRate, 4)
                      \o Stored(blockAlign, 2)
                      \o LE16(bitDepth) \o TagData \o LE32(Len(pcmData))
    IN  [threw |-> FALSE, bytes |-> header \o pcmData]

\* The outcome of createWavBuffer: the buffer returned, or a RangeError raised
\* by one of the header writes.
createWavBuffer(pcmBuffers, sampleRate, channels, bitDepth) ==
    LET pcmData    == Concat(pcmBuffers)
        byteRate   == Quotient(Times(Times(Bytes(sampleRate), channels, 0),
                                     bitDepth, 0), 8)
        blockAlign == Quotient(Times(Bytes(channels), bitDepth, 0), 8)
        threw      == \/ OutOfRange(Whole(36 + Len(pcmData)), 4)
                      \/ OutOfRange(Whole(channels), 2)
                      \/ OutOfRange(Whole(sampleRate), 4)
                      \/ OutOfRange(byteRate, 4)
                      \/ OutOfRange(blockAlign, 2)
                      \/ OutOfRange(Whole(bitDepth), 2)
                      \/ OutOfRange(Whole(Len(pcmData)), 4)
        header     == TagRIFF \o LE32(36 + Len(pcmData)) \o TagWAVE
                      \o TagFmt \o LE32(16) \o LE16(1) \o LE16(channels)
                      \o LE32(sampleRate) \o Stored(byteRate, 4)
                      \o Stored(blockAlign, 2)
                      \o LE16(bitDepth) \o TagData \o LE32(Len(pcmData))
    IN  IF threw THEN [threw |-> TRUE,  bytes |-> <<>>]
        ELSE          [threw |-> FALSE, bytes |-> header \o pcmData]

\* The value of a base64 character.
Sextet(c) ==
    CASE c = "A" -> 0
      [] c = "M" -> 12
      [] c = "Q" -> 16
      [] c = "g" -> 32

\* The characters before the padding.
RECURSIVE Unpadded(_)
Unpadded(s) ==
    IF s = <<>> \/ Head(s) = "=" THEN <<>> ELSE <<Head(s)>> \o Unpadded(Tail(s))

\* The bytes of a run of base64 characters: three of every four, two of a
\* last three, one of a last two.
RECURSIVE DecodeSextets(_)
DecodeSextets(cs) ==
    IF Len(cs) < 2 THEN <<>>
    ELSE LET a  == Sextet(cs[1])
             b  == Sextet(cs[2])
             b1 == a * 4 + b \div 16
         IN  IF Len(cs) = 2 THEN <<b1>>
             ELSE LET c  == Sextet(cs[3])
                      b2 == (b % 16) * 16 + c \div 4
                  IN  IF Len(cs) = 3 THEN <<b1, b2>>
                      ELSE <<b1, b2, (c % 4) * 64 + Sextet(cs[4])>>
                           \o DecodeSextets(SubSeq(cs, 5, Len(cs)))

\* Buffer.from(data, 'base64')
BufferFromBase64(data) == DecodeSextets(Unpadded(data))

\* A part of a live message: inlineData.data, empty when the part has none.
InlinePart(data) == [data |-> data]
OtherPart        == [data |-> <<>>]

\* A live message: serverContent.turnComplete and serverContent.modelTurn.parts.
Message(turnComplete, parts) == [turnComplete |-> turnComplete, parts |-> parts]

\* The parts loop of onmessage.
RECURSIVE PushParts(_, _)
PushParts(chunks, parts) ==
    IF parts = <<>> THEN chunks
    ELSE PushParts(IF Head(parts).data # <<>>
                   THEN Append(chunks, BufferFromBase64(Head(parts).data))
                   ELSE chunks,
                   Tail(parts))

NoWav == [written |-> FALSE, bytes |-> <<>>]

\* A script before its start.
Script(name) ==
    [script |-> name, capture |-> "none", analysisText |-> JUndef,
     analysisFile |-> JUndef]

NoAudioHist ==
    [ arrived    |-> <<>>,   \* the messages delivered to onmessage, in order
      closeCalls |-> 0,      \* calls of session.close()
      errors     |-> 0,      \* calls of onerror
      turn       |-> <<>>,   \* the text parts of the turns sent
      log        |-> <<>> ]  \* what the script observed and did, in order

\* createWavBuffer was not called.
NoWavOut == [called |-> FALSE, threw |-> FALSE, bytes |-> <<>>]

\* No call of createWavBuffer on its own is under study.
WavIdle ==
    /\ wavIn = [pcmBuffers |-> <<>>, sampleRate |-> SampleRate,
                channels |-> Channels, bitDepth |-> BitDepth]
    /\ wavOut = NoWavOut

\* No audio script is running.
AudioIdle ==
    /\ WavIdle
    /\ env = KeySet
    /\ audioChunks = <<>>
    /\ session = "tdz"
    /\ sessionComplete = "pending"
    /\ epc = "idle" /\ apc = "start"
    /\ channel = "none"
    /\ incoming = <<>>
    /\ sends = <<>>
    /\ wavFile = NoWav
    /\ cli = Script("audio")
    /\ ahist = NoAudioHist

Running == apc \notin {"exit0", "exit1"}

\* The reaction of `await sessionComplete` is a microtask: once the promise is
\* settled main resumes before the channel can deliver another event.
ResumePending == apc = "awaiting" /\ sessionComplete # "pending"

\* Mutant of Listening: the channel delivers events between resolve() and
\* the resumption of main.
ListeningBeforeResume == Running

\* The channel can deliver an event to the script.
Listening == Running /\ ~ResumePending

Logged(entries) == [ahist EXCEPT !.log = @ \o entries]

\* resolve() / reject(): the first call settles the promise.
Settle(outcome) == IF sessionComplete = "pending" THEN outcome ELSE sessionComplete

\* main up to the await of captureDesktop: the check of the credential.
Main ==
    /\ apc = "start"
    /\ apc' = IF ~Truthy(env.GEMINI_API_KEY) THEN "exit1" ELSE "capturing"
    /\ UNCHANGED <<audioChunks, session, sessionComplete, epc, channel, incoming,
                   sends, wavFile, ahist, cli, webVars, wavVars, env>>

\* What captureDesktop can do: raise (mkdir, writeFile, PowerShell or readFile
\* fails), or return the buffer of the file, which may hold no bytes.
Captures == {"failed", "empty", "image"}

\* captureDesktop settles.  A rejection ends the script with status 1; with a
\* buffer the audio script goes on to `await sessionComplete`, the executor
\* running to its await of ai.live.connect, and the other scripts call
\* generateContent.
CaptureEnds(outcome) ==
    /\ apc = "capturing"
    /\ cli' = [cli EXCEPT !.capture = outcome]
    /\ ahist' = Logged(<<IF outcome = "failed" THEN "captureFailed" ELSE "captured">>)
    /\ IF outcome = "failed"
       THEN apc' = "exit1" /\ epc' = epc
       ELSE IF cli.script = "audio"
       THEN apc' = "awaiting" /\ epc' = "connecting"
       ELSE apc' = "vision" /\ epc' = epc
    /\ UNCHANGED <<audioChunks, session, sessionComplete, channel, incoming, sends,
                   wavFile, webVars, wavVars, env>>

\* generateContent settles and the analysis file is written.  A failure of
\* either ends the script with status 1.  startup-analysis.js is then done;
\* startup-vision-audio.js calls speakAnalysisWithAudio, which runs to
\* `await sessionComplete`.
VisionEnds(ok, text, written) ==
    /\ apc = "vision"
    /\ IF ~ok
       THEN /\ apc' = "exit1" /\ epc' = epc
            /\ cli' = cli
            /\ ahist' = Logged(<<"visionFailed">>)
       ELSE IF ~written
       THEN /\ apc' = "exit1" /\ epc' = epc
            /\ cli' = [cli EXCEPT !.analysisText = JStr(text)]
            /\ ahist' = Logged(<<"vision", "writeFailed">>)
       ELSE /\ cli' = [cli EXCEPT !.analysisText = JStr(text),
                                  !.analysisFile = JStr(text)]
            /\ ahist' = Logged(<<"vision", "writeAnalysis">>)
            /\ IF cli.script = "analysis"
               THEN apc' = "exit0" /\ epc' = epc
               ELSE apc' = "awaiting" /\ epc' = "connecting"
    /\ UNCHANGED <<audioChunks, session, sessionComplete, channel, incoming, sends,
                   wavFile, webVars, wavVars, env>>

\* The sends that follow the connect: the audio script sends the image and
\* its prompt, speakAnalysisWithAudio the analysis text.
SessionSends ==
    IF cli.script = "audio" THEN <<"sendRealtimeInput", "sendClientContent">>
    ELSE <<"sendClientContent">>

\* The prompt of the audio script.
Prompt == JStr(<<"p">>)

\* Mutant of TurnText: speakAnalysisWithAudio sends the prompt of the audio
\* script in place of the analysis text.
TurnTextPrompt == Prompt

\* The text of the turn.
TurnText == IF cli.script = "audio" THEN Prompt ELSE cli.analysisText

\* The channel opens: onopen.
ChannelOpen ==
    /\ Listening /\ epc = "connecting" /\ channel = "none"
    /\ channel' = "open"
    /\ ahist' = Logged(<<"onopen">>)
    /\ UNCHANGED <<audioChunks, session, sessionComplete, epc, apc, incoming, sends,
                   wavFile, cli, webVars, wavVars, env>>

\* Mutant of ConnectReturns: the sends are issued without a wait for main's
\* reaction to a rejection, so they follow an error that came first.
ConnectReturnsAfterError ==
    /\ Running /\ epc = "connecting" /\ channel # "none"
    /\ session' = "open"
    /\ sends' = sends \o SessionSends
    /\ epc' = "done"
    /\ ahist' = [ahist EXCEPT !.turn = Append(@, TurnText),
                               !.log  = @ \o <<"connected">> \o SessionSends]
    /\ UNCHANGED <<audioChunks, sessionComplete, apc, channel, incoming, wavFile,
                   cli, webVars, wavVars, env>>

\* ai.live.connect resolves: the binding is assigned and the two sends follow.
ConnectReturns ==
    /\ Listening /\ epc = "connecting" /\ channel # "none"
    /\ session' = "open"
    /\ sends' = sends \o SessionSends
    /\ epc' = "done"
    /\ ahist' = [ahist EXCEPT !.turn = Append(@, TurnText),
                               !.log  = @ \o <<"connected">> \o SessionSends]
    /\ UNCHANGED <<audioChunks, sessionComplete, apc, channel, incoming, wavFile,
                   cli, webVars, wavVars, env>>

\* ai.live.connect rejects: the catch block of the executor.
ConnectFails ==
    /\ Listening /\ epc = "connecting" /\ channel = "none"
    /\ sessionComplete' = Settle("rejected")
    /\ epc' = "done"
    /\ ahist' = Logged(<<"connectFailed", "reject">>)
    /\ UNCHANGED <<audioChunks, session, apc, channel, incoming, sends, wavFile,
                   cli, webVars, wavVars, env>>

\* onmessage(message) for the next message of the channel.  With
\* turnComplete the callback closes the session, resolves and returns; while
\* `session` is not yet assigned the reference raises and the process ends.
OnMessage ==
    /\ Listening /\ channel = "open" /\ incoming # <<>>
    /\ LET message == Head(incoming) IN
       /\ incoming' = Tail(incoming)
       /\ ahist' = [ahist EXCEPT
             !.arrived    = Append(@, message),
             !.closeCalls = IF message.turnComplete /\ session # "tdz"
                            THEN @ + 1 ELSE @,
             !.log        = @ \o (IF ~message.turnComplete THEN <<"message">>
                                  ELSE IF session = "tdz"
                                  THEN <<"turnComplete", "ReferenceError">>
                                  ELSE <<"turnComplete", "close", "resolve">>)]
       /\ IF message.turnComplete
          THEN /\ audioChunks' = audioChunks
               /\ IF session = "tdz"
                  THEN /\ apc' = "exit1"
                       /\ UNCHANGED <<session, sessionComplete>>
                  ELSE /\ session' = "closed"
                       /\ sessionComplete' = Settle("resolved")
                       /\ apc' = apc
          ELSE /\ audioChunks' = PushParts(audioChunks, message.parts)
               /\ UNCHANGED <<session, sessionComplete, apc>>
    /\ UNCHANGED <<epc, channel, sends, wavFile, cli, webVars, wavVars, env>>

\* onerror(e)
OnError ==
    /\ Listening /\ epc # "idle" /\ channel # "closed" /\ ahist.errors = 0
    /\ sessionComplete' = Settle("rejected")
    /\ ahist' = [ahist EXCEPT !.errors = @ + 1,
                               !.log    = @ \o <<"onerror", "reject">>]
    /\ UNCHANGED <<audioChunks, session, epc, apc, channel, incoming, sends,
                   wavFile, cli, webVars, wavVars, env>>

\* onclose(): the channel is closed, by session.close() or by the remote side.
OnClose ==
    /\ Listening /\ channel = "open"
    /\ channel' = "closed"
    /\ ahist' = Logged(<<"onclose">>)
    /\ UNCHANGED <<audioChunks, session, sessionComplete, epc, apc, incoming, sends,
                   wavFile, cli, webVars, wavVars, env>>

\* Mutant of MainResumes: the chunks that arrived are written and played
\* whether the promise was resolved or rejected.
MainResumesPartial ==
    /\ apc = "awaiting" /\ sessionComplete # "pending"
    /\ IF Len(audioChunks) > 0
       THEN /\ wavFile' = [written |-> TRUE,
                           bytes   |-> createWavBuffer(audioChunks, SampleRate,
                                                       Channels, BitDepth).bytes]
            /\ apc' = "playing"
            /\ ahist' = Logged(<<"writeFile", "play">>)
       ELSE /\ apc' = IF sessionComplete = "rejected" THEN "exit1" ELSE "exit0"
            /\ wavFile' = wavFile
            /\ ahist' = ahist
    /\ UNCHANGED <<audioChunks, session, sessionComplete, epc, channel, incoming,
                   sends, cli, webVars, wavVars, env>>

\* `await sessionComplete` resumes: the WAV file is written and played, or
\* main's rejection reaches main().catch.
MainResumes ==
    /\ apc = "awaiting" /\ sessionComplete # "pending"
    /\ IF sessionComplete = "rejected"
       THEN /\ apc' = "exit1"
            /\ wavFile' = wavFile
            /\ ahist' = ahist
       ELSE IF Len(audioChunks) > 0
       THEN LET wavBuffer == createWavBuffer(audioChunks, SampleRate, Channels,
                                             BitDepth)
            IN  IF wavBuffer.threw
                THEN /\ apc' = "exit1"
                     /\ wavFile' = wavFile
                     /\ ahist' = ahist
                ELSE /\ wavFile' = [written |-> TRUE, bytes |-> wavBuffer.bytes]
                     /\ apc' = "playing"
                     /\ ahist' = Logged(<<"writeFile", "play">>)
       ELSE /\ apc' = "exit0"
            /\ wavFile' = wavFile
            /\ ahist' = ahist
    /\ UNCHANGED <<audioChunks, session, sessionComplete, epc, channel, incoming,
                   sends, cli, webVars, wavVars, env>>

\* The player returns and the process exits; a failing player rejects main.
PlayEnds(ok) ==
    /\ apc = "playing"
    /\ apc' = IF ok THEN "exit0" ELSE "exit1"
    /\ UNCHANGED <<audioChunks, session, sessionComplete, epc, channel, incoming,
                   sends, wavFile, ahist, cli, webVars, wavVars, env>>

\* A call createWavBuffer(pcmBuffers, sampleRate, channels, bitDepth).
Encode ==
    /\ ~wavOut.called
    /\ LET wavBuffer == createWavBuffer(wavIn.pcmBuffers, wavIn.sampleRate,
                                        wavIn.channels, wavIn.bitDepth)
       IN  wavOut' = [called |-> TRUE, threw |-> wavBuffer.threw,
                      bytes  |-> wavBuffer.bytes]
    /\ UNCHANGED <<wavIn, webVars, audioVars, env>>

\* ----------------------------------------------------------------------
\* Inputs
\* ----------------------------------------------------------------------

\* All sequences over S of length at most n.
RECURSIVE SeqsUpTo(_, _)
SeqsUpTo(S, n) ==
    IF n = 0 THEN {<<>>}
    ELSE LET shorter == SeqsUpTo(S, n - 1) IN
         shorter \cup {Append(q, e) : q \in shorter, e \in S}

\* Texts of the model output: letters, and a quote and a newline, which
\* JSON.stringify escapes.
TextA == <<"a">>
TextB == <<"\"">>
CodeC == <<"\n">>
OutR  == <<"r">>

\* state and the elements before any analysis, with state.currentImageBase64
\* as given: null after init, a data URL after an image was loaded
\* (handleImageFile's onload).
FreshUI(image, streaming) ==
    [ state    |-> [currentImageBase64 |-> image, isProcessing |-> FALSE,
                    lastResult |-> NoResult],
      elements |-> [ streamingToggle       |-> streaming,
                     analyzeBtnDisabled    |-> FALSE,
                     analyzeBtnLoading     |-> FALSE,
                     copyResultBtnDisabled |-> TRUE,
                     progressHidden        |-> TRUE,
                     progressFill          |-> 0,
                     progressLog           |-> <<>>,
                     resultContent         |-> Content("placeholder", JNull, <<>>),
                     processedImage        |-> JUndef,
                     codeContent           |-> <<>>,
                     rawContent            |-> NoResult ] ]

\* The page in the given state of the UI, no exchange in flight.
PageIn(ui) ==
    /\ state = ui.state
    /\ elements = ui.elements
    /\ cpc = "idle"
    /\ fullText = <<>> /\ codeBlocks = <<>> /\ progress = 0
    /\ other = NoOther
    /\ req = NoReq /\ resp = NoResp /\ wire = <<>>
    /\ hist = NoHist

PageWith(image, streaming) == PageIn(FreshUI(image, streaming))

\* The page after a PNG image was loaded.
PageReady(streaming) == PageWith(ImageDataUrl, streaming)

\* ----------------------------------------------------------------------
\* SpecStream: one streaming exchange, page -> server -> page
\* ----------------------------------------------------------------------

MaxChunks == 2

StreamChunks ==
    { <<TextPart(TextA)>>,
      <<TextPart(TextB), CodePart(CodeC)>>,
      <<ResultPart(OutR), TextPart(TextA)>> }

InitStream ==
    /\ PageReady(TRUE)
    /\ AudioIdle
    /\ spc = "idle"
    /\ upstream \in SeqsUpTo(StreamChunks, MaxChunks)
    /\ upstreamThrows \in BOOLEAN

NextStream ==
    \/ AnalyzeImage
    \/ StreamingResponse
    \/ \E n \in 1..Len(wire) : Read(n)
    \/ ReadDone
    \/ ReadError
    \/ ServerAccept
    \/ ServerChunk
    \/ ServerDone
    \/ ServerStreamThrows

SpecStream == InitStream /\ [][NextStream]_vars

\* ----------------------------------------------------------------------
\* SpecWire: the page reads a response body that any peer may have written
\* ----------------------------------------------------------------------

MaxLines == 3

\* Lines of a response body.  key "bad" marks a line that is no event.
ChunkLine(text) == [key |-> "chunk", text |-> text]
CodeLine(text)  == [key |-> "code",  text |-> text]
DoneMark        == [key |-> "done",  text |-> <<>>]
\* No `data: ` prefix.
NoPrefixLine    == [key |-> "bad",   text |-> <<"event: ", "x">>]
\* A payload that is no JSON text.
BadJsonLine     == [key |-> "bad",   text |-> <<"data: ", "{", "\"", "chunk">>]
\* A payload that is JSON but no object.
NullLine        == [key |-> "bad",   text |-> <<"data: ", "null">>]

WireLines ==
    { ChunkLine(TextA), CodeLine(CodeC), DoneMark,
      NoPrefixLine, BadJsonLine, NullLine }

RenderLine(l) ==
    IF l.key = "done" THEN DoneLine
    ELSE IF l.key = "bad" THEN l.text \o <<"\n", "\n">>
    ELSE EventLine(l.key, l.text)

RECURSIVE RenderLines(_)
RenderLines(ls) ==
    IF ls = <<>> THEN <<>> ELSE RenderLine(Head(ls)) \o RenderLines(Tail(ls))

\* The peer answers the fetch with status 200 and the whole body.
PeerRespond ==
    /\ spc = "idle" /\ req.sent
    /\ req' = NoReq
    /\ resp' = [status |-> 200, body |-> NoResult, ended |-> "end"]
    /\ wire' = RenderLines(upstream)
    /\ hist' = [hist EXCEPT !.sent = upstream, !.output = upstream]
    /\ upstream' = <<>>
    /\ UNCHANGED <<audioVars, wavVars, env, clientVars, spc, upstreamThrows>>

InitWire ==
    /\ PageReady(TRUE)
    /\ AudioIdle
    /\ spc = "idle"
    /\ upstream \in SeqsUpTo(WireLines, MaxLines)
    /\ upstreamThrows = FALSE

NextWire ==
    \/ AnalyzeImage
    \/ PeerRespond
    \/ StreamingResponse
    \/ \E n \in 1..Len(wire) : Read(n)
    \/ ReadDone

SpecWire == InitWire /\ [][NextWire]_vars

\* ----------------------------------------------------------------------
\* SpecBuffered: one buffered exchange, page -> server -> page
\* ----------------------------------------------------------------------

MaxParts == 3

TextOne   == <<"1">>
\* A fenced block whose content is no JSON text.
FenceBad  == <<"<ticks>", "json", "a", "<ticks>">>
\* A fenced block whose content is the JSON text 1.
FenceGood == <<"<ticks>", "json", "\n", "1", "\n", "<ticks>">>

BufferedParts ==
    { TextPart(TextOne), TextPart(TextA), TextPart(FenceBad), TextPart(FenceGood),
      CodePart(CodeC), ResultPart(OutR), NullPart }

\* The upstream answer has one candidate.
InitBuffered ==
    /\ PageReady(FALSE)
    /\ AudioIdle
    /\ spc = "idle"
    /\ upstream \in {<<parts>> : parts \in SeqsUpTo(BufferedParts, MaxParts)}
    /\ upstreamThrows \in BOOLEAN

NextBuffered ==
    \/ AnalyzeImage
    \/ ServerAccept
    \/ ServerChat
    \/ BufferedResponse

SpecBuffered == InitBuffered /\ [][NextBuffered]_vars

\* ----------------------------------------------------------------------
\* SpecAudio: one run of the audio script against a live channel
\* ----------------------------------------------------------------------

MaxMessages == 3

\* base64 of the byte 1, and of the bytes 2, 3.
PcmOne == <<"A", "Q", "=", "=">>
PcmTwo == <<"A", "g", "M", "=">>

AudioMessages ==
    { Message(FALSE, <<InlinePart(PcmOne)>>),
      Message(FALSE, <<InlinePart(PcmTwo), OtherPart, InlinePart(PcmOne)>>),
      Message(FALSE, <<OtherPart>>),
      Message(TRUE, <<>>),
      Message(TRUE, <<InlinePart(PcmTwo)>>) }

InitAudio ==
    /\ PageReady(FALSE)
    /\ spc = "idle" /\ upstream = <<>> /\ upstreamThrows = FALSE
    /\ WavIdle
    /\ env = KeySet
    /\ audioChunks = <<>>
    /\ session = "tdz"
    /\ sessionComplete = "pending"
    /\ epc = "idle" /\ apc = "start"
    /\ channel = "none"
    /\ incoming \in SeqsUpTo(AudioMessages, MaxMessages)
    /\ sends = <<>>
    /\ wavFile = NoWav
    /\ cli = Script("audio")
    /\ ahist = NoAudioHist

NextAudio ==
    \/ Main
    \/ \E outcome \in Captures : CaptureEnds(outcome)
    \/ ChannelOpen
    \/ ConnectReturns
    \/ ConnectFails
    \/ OnMessage
    \/ OnError
    \/ OnClose
    \/ MainResumes
    \/ \E ok \in BOOLEAN : PlayEnds(ok)

SpecAudio == InitAudio /\ [][NextAudio]_vars

\* ----------------------------------------------------------------------
\* SpecPage: the page during a streaming exchange, with images loaded and a
\* second analysis begun meanwhile
\* ----------------------------------------------------------------------

\* The image of a file read during the exchange.
LoadedImages == { DataUrl(<<"image/", "jpeg">>, <<"BBBB">>) }

\* What the second call can hand to processResult.
OtherResults == { StreamResult(TextA, <<>>), StreamResult(TextB, <<JStr(CodeC)>>) }

PageChunks == { <<TextPart(TextA)>>, <<TextPart(TextB), CodePart(CodeC)>> }

InitPage ==
    /\ PageReady(TRUE)
    /\ AudioIdle
    /\ spc = "idle"
    /\ upstream \in {<<chunk>> : chunk \in PageChunks}
    /\ upstreamThrows \in BOOLEAN

NextPage ==
    \/ NextStream
    \/ \E image \in LoadedImages : LoadImage(image)
    \/ OtherAnalyzeImage
    \/ \E result \in OtherResults : OtherSucceeds(result)
    \/ OtherFails

SpecPage == InitPage /\ [][NextPage]_vars

\* ----------------------------------------------------------------------
\* SpecAnalyses: analyses that run one after the other on the page
\* ----------------------------------------------------------------------

\* Texts of the model that are JSON: one with a processed image, one without.
ImageJson == StringifyPair("processed_image_base64", <<"x">>)
PlainJson == StringifyPair("analysis", TextA)

\* What analyzeWithStreaming can hand to processResult.
AnalysisResults ==
    { StreamResult(TextA, <<>>),
      StreamResult(TextB, <<JStr(CodeC)>>),
      StreamResult(ImageJson, <<>>),
      StreamResult(PlainJson, <<JStr(CodeC), JStr(TextA)>>),
      StreamResult(<<>>, <<>>) }

InitAnalyses ==
    /\ PageReady(TRUE)
    /\ AudioIdle
    /\ spc = "idle"
    /\ upstream = <<>>
    /\ upstreamThrows = FALSE

NextAnalyses ==
    \/ \E result \in AnalysisResults : CompleteAnalysis(result)
    \/ FailedAnalysis

SpecAnalyses == InitAnalyses /\ [][NextAnalyses]_vars

\* ----------------------------------------------------------------------
\* SpecCli: one run of one of the three scripts
\* ----------------------------------------------------------------------

Scripts == {"analysis", "audio", "visionAudio"}

\* What the vision model can answer.
VisionTexts == {TextA, TextB}

\* What the live channel can deliver to a script: audio, and the end of the
\* turn.
CliMessages == { Message(FALSE, <<InlinePart(PcmOne)>>), Message(TRUE, <<>>) }

InitCli ==
    /\ PageReady(FALSE)
    /\ spc = "idle" /\ upstream = <<>> /\ upstreamThrows = FALSE
    /\ WavIdle
    /\ env \in {KeySet, KeyUnset}
    /\ audioChunks = <<>>
    /\ session = "tdz"
    /\ sessionComplete = "pending"
    /\ epc = "idle" /\ apc = "start"
    /\ channel = "none"
    /\ \E name \in Scripts :
          /\ cli = Script(name)
          /\ incoming \in IF name = "analysis" THEN {<<>>}
                           ELSE SeqsUpTo(CliMessages, MaxMessages)
    /\ sends = <<>>
    /\ wavFile = NoWav
    /\ ahist = NoAudioHist

NextCli ==
    \/ NextAudio
    \/ \E ok \in BOOLEAN, text \in VisionTexts, written \in BOOLEAN :
          VisionEnds(ok, text, written)

SpecCli == InitCli /\ [][NextCli]_vars

\* ----------------------------------------------------------------------
\* SpecRequest: requests of the page and of other clients, and a start of the
\* audio script, with and without the credential
\* ----------------------------------------------------------------------

MaxRequests == 1

MimeJpeg == <<"image/", "jpeg">>
MimeSvg  == <<"image/", "svg", "+", "xml">>
MimePdf  == <<"application/", "pdf">>

\* What the page can hold: nothing, or the data URL of a file whose type
\* starts with image/.
PageImages ==
    { JNull, ImageDataUrl, DataUrl(MimeJpeg, <<"AAAA">>),
      DataUrl(MimeSvg, <<"AAAA">>) }

\* A file as multer hands it over: the base64 of its buffer and its mimetype.
Upload == [base64 |-> <<"BBBB">>, mimetype |-> MimeJpeg]

\* What another client can post: no image at all, an empty string, base64
\* text or a data URL, with or without a file.
PeerPosts ==
    [ file        : {JUndef, Upload},
      imageBase64 : { JUndef, JStr(<<>>), JStr(<<"AAAA">>),
                      DataUrl(MimeJpeg, <<"AAAA">>), DataUrl(MimePdf, <<"AAAA">>) } ]

\* Another client posts to /api/vision while the page holds no image.
PeerRequest ==
    /\ state.currentImageBase64 = JNull /\ cpc = "idle"
    /\ spc = "idle" /\ ~req.sent
    /\ Len(hist.handled) < MaxRequests
    /\ \E post \in PeerPosts, streaming \in BOOLEAN :
          req' = [sent |-> TRUE, streaming |-> streaming,
                  imageBase64 |-> post.imageBase64, file |-> post.file]
    /\ resp' = NoResp
    /\ wire' = <<>>
    /\ UNCHANGED <<clientVars, serverVars, hist, audioVars, wavVars, env>>

InitRequest ==
    /\ \E image \in PageImages, streaming \in BOOLEAN : PageWith(image, streaming)
    /\ spc = "idle"
    /\ upstream = << <<TextPart(TextA)>> >>
    /\ upstreamThrows \in BOOLEAN
    /\ env \in {KeySet, KeyUnset}
    /\ WavIdle
    /\ audioChunks = <<>>
    /\ session = "tdz"
    /\ sessionComplete = "pending"
    /\ epc = "idle" /\ apc = "start"
    /\ channel = "none"
    /\ incoming = <<Message(FALSE, <<InlinePart(PcmOne)>>), Message(TRUE, <<>>)>>
    /\ sends = <<>>
    /\ wavFile = NoWav
    /\ cli = Script("audio")
    /\ ahist = NoAudioHist

NextRequest ==
    \/ PeerRequest
    \/ NextStream
    \/ ServerChat
    \/ BufferedResponse
    \/ NextAudio

SpecRequest == InitRequest /\ [][NextRequest]_vars

\* ----------------------------------------------------------------------
\* SpecWav, SpecWavWide: one call of createWavBuffer
\* ----------------------------------------------------------------------

MaxWavChunks == 2

\* PCM buffers: an empty one, one byte, two bytes.
WavChunks == { <<>>, <<1>>, <<2, 3>> }

\* The formats in use: telephone, the default of the scripts, CD.
WavFormats ==
    [sampleRate : {8000, SampleRate, 44100}, channels : {Channels, 2},
     bitDepth : {8, BitDepth, 24}]

\* Positive values up to the largest each 16-bit header field can hold.
WideFormats ==
    [sampleRate : {SampleRate, 44100}, channels : {Channels, 2, 32768, 65535},
     bitDepth : {8, 12, BitDepth, 65535}]

WavCall(pcmBuffers, format) ==
    [pcmBuffers |-> pcmBuffers, sampleRate |-> format.sampleRate,
     channels |-> format.channels, bitDepth |-> format.bitDepth]

WavScriptsIdle ==
    /\ PageReady(FALSE)
    /\ env = KeySet
    /\ spc = "idle" /\ upstream = <<>> /\ upstreamThrows = FALSE
    /\ audioChunks = <<>>
    /\ session = "tdz"
    /\ sessionComplete = "pending"
    /\ epc = "idle" /\ apc = "start"
    /\ channel = "none"
    /\ incoming = <<>>
    /\ sends = <<>>
    /\ wavFile = NoWav
    /\ cli = Script("audio")
    /\ ahist = NoAudioHist

InitWav ==
    /\ WavScriptsIdle
    /\ \E pcmBuffers \in SeqsUpTo(WavChunks, MaxWavChunks), format \in WavFormats :
          wavIn = WavCall(pcmBuffers, format)
    /\ wavOut = NoWavOut

InitWavWide ==
    /\ WavScriptsIdle
    /\ \E pcmBuffers \in SeqsUpTo(WavChunks, MaxWavChunks), format \in WideFormats :
          wavIn = WavCall(pcmBuffers, format)
    /\ wavOut = NoWavOut

NextWav == Encode

SpecWav     == InitWav /\ [][NextWav]_vars
SpecWavWide == InitWavWide /\ [][NextWav]_vars

\* ----------------------------------------------------------------------
\* Properties of the streaming exchange
\* ----------------------------------------------------------------------

\* The texts of the lines with the given key, in order.
RECURSIVE TextsOf(_, _)
TextsOf(ls, key) ==
    IF ls = <<>> THEN <<>>
    ELSE (IF Head(ls).key = key THEN <<Head(ls).text>> ELSE <<>>)
         \o TextsOf(Tail(ls), key)

RECURSIVE AsStrings(_)
AsStrings(texts) ==
    IF texts = <<>> THEN <<>> ELSE <<JStr(Head(texts))>> \o AsStrings(Tail(texts))

\* result.codeResults, empty where the result has no such property.
CodeResultsOf(result) ==
    IF "codeResults" \in result.keys THEN result.codeResults ELSE <<>>

\* The exchange has ended with a call of processResult.
Shown == cpc = "idle" /\ hist.results = 1

\* The longest prefix of the lines ls whose text, up to the end of the last
\* line, lies within the first `read` symbols of the body.
RECURSIVE Within(_, _)
Within(ls, read) ==
    IF ls = <<>> \/ Len(RenderLines(ls)) - 1 <= read THEN ls
    ELSE Within(Most(ls), read)

\* The lines written so far that the page has read up to the line end.
Arrived(ls, unread) == Within(ls, Len(RenderLines(ls)) - unread)

\* C1: for every sequence of chunk events the server writes and every way the
\* body is split into reads, the text handed to processResult is the ordered
\* concatenation of the chunk texts.
C1_ChunkingIndependent ==
    Shown => state.lastResult.text = Concat(TextsOf(hist.sent, "chunk"))

\* C2: when every read delivers whole lines, the text after the events read
\* so far is the concatenation of their chunk texts, in arrival order, and
\* the final text is the concatenation of all of them.
C2_WholeLineFold ==
    /\ (cpc = "reading" /\ hist.wholeLines) =>
           fullText = Concat(TextsOf(Arrived(hist.sent, Len(wire)), "chunk"))
    /\ (Shown /\ hist.wholeLines) =>
           state.lastResult.text = Concat(TextsOf(hist.sent, "chunk"))

\* C2 witness: two different chunk texts and [DONE], read in whole lines.
C2_Witness ==
    /\ Shown /\ hist.wholeLines
    /\ TextsOf(hist.sent, "chunk") = <<TextB, TextA>>
    /\ Last(hist.sent).key = "done"
    /\ state.lastResult.text = TextB \o TextA

\* C3: the streaming result holds every code event's code in code and every
\* result event's output in codeResults, in arrival order, beside the text.
C3_FoldAllKinds ==
    (Shown /\ hist.wholeLines) =>
        /\ state.lastResult.text = Concat(TextsOf(hist.sent, "chunk"))
        /\ state.lastResult.code = AsStrings(TextsOf(hist.sent, "code"))
        /\ CodeResultsOf(state.lastResult) = AsStrings(TextsOf(hist.sent, "result"))

\* C4: for the same model output, the streaming path yields the text, code
\* and codeResults that parseAgenticResponse builds in buffered mode.
C4_BufferedStreamingEquivalent ==
    (Shown /\ hist.wholeLines /\ ~hist.failed) =>
        LET buffered == parseAgenticResponse(<<Concat(hist.output)>>) IN
        /\ state.lastResult.text = buffered.text
        /\ state.lastResult.code = buffered.code
        /\ CodeResultsOf(state.lastResult) = buffered.codeResults

\* C7: when the upstream stream fails, the exchange ends with one error, no
\* call of processResult, state.lastResult as it was before the exchange,
\* and the error message in the result pane.
C7_NoPartialResult ==
    /\ hist.failed => hist.results = 0
    /\ (hist.failed /\ cpc = "idle") =>
           /\ hist.errors = 1
           /\ state.lastResult = hist.before
           /\ elements.rawContent = hist.before
           /\ elements.resultContent.kind = "error"

\* C7 witness: the failure came after events were written and folded (the
\* progress log holds a folded code or result event).
C7_Witness ==
    /\ hist.failed /\ cpc = "idle" /\ hist.errors = 1
    /\ resp.ended = "abort"
    /\ TextsOf(hist.sent, "chunk") # <<>>
    /\ elements.progressLog # <<>>

\* C5: a line without the `data: ` prefix, or whose payload is no JSON text or
\* is JSON null, adds nothing to text or code and raises no error, and the
\* well-formed lines after it are folded.
C5_MalformedSkipped ==
    /\ hist.errors = 0
    /\ (cpc = "reading" /\ hist.wholeLines) =>
           LET arrived == Arrived(hist.sent, Len(wire)) IN
           /\ fullText = Concat(TextsOf(arrived, "chunk"))
           /\ codeBlocks = AsStrings(TextsOf(arrived, "code"))
    /\ (Shown /\ hist.wholeLines) =>
           /\ state.lastResult.text = Concat(TextsOf(hist.sent, "chunk"))
           /\ state.lastResult.code = AsStrings(TextsOf(hist.sent, "code"))

\* C5 witness: a malformed line, then a chunk event and a code event, all
\* folded into the result shown.
C5_Witness ==
    /\ Shown /\ hist.wholeLines
    /\ Len(hist.sent) = 3
    /\ hist.sent[1].key = "bad"
    /\ hist.sent[2].key = "chunk" /\ hist.sent[3].key = "code"
    /\ state.lastResult.text = TextA
    /\ state.lastResult.code = <<JStr(CodeC)>>

\* The lines other than [DONE].
RECURSIVE WithoutDone(_)
WithoutDone(ls) ==
    IF ls = <<>> THEN <<>>
    ELSE (IF Head(ls).key = "done" THEN <<>> ELSE <<Head(ls)>>)
         \o WithoutDone(Tail(ls))

\* C6: a [DONE] line adds nothing and does not end the read loop: the events
\* after it are folded, processResult is called at most once, only when the
\* body is read to its end, and an exchange that is over has called it.
C6_DoneIsNotCompletion ==
    /\ hist.results <= 1
    /\ hist.results = 1 => (wire = <<>> /\ resp.ended = "end")
    /\ (cpc = "idle" /\ hist.exchanges > 0 /\ hist.errors = 0) => hist.results = 1
    /\ (Shown /\ hist.wholeLines) =>
           /\ state.lastResult.text =
                  Concat(TextsOf(WithoutDone(hist.sent), "chunk"))
           /\ state.lastResult.code =
                  AsStrings(TextsOf(WithoutDone(hist.sent), "code"))

\* C6 witness: a chunk event written after [DONE] is part of the result.
C6_Witness ==
    /\ Shown /\ hist.wholeLines
    /\ Len(hist.sent) >= 2
    /\ hist.sent[1].key = "done" /\ hist.sent[2].key = "chunk"
    /\ state.lastResult.text # <<>>

\* ----------------------------------------------------------------------
\* Properties of the buffered exchange
\* ----------------------------------------------------------------------

\* The contents of the fenced blocks of a text from position i on, in order.
RECURSIVE FencedContents(_, _)
FencedContents(text, i) ==
    LET open == FindFrom(text, <<"<ticks>", "json">>, i) IN
    IF open = 0 THEN <<>>
    ELSE LET from  == SkipWs(text, open + 2)
             close == FindFrom(text, <<"<ticks>">>, from)
         IN  IF close = 0 THEN <<>>
             ELSE <<RStrip(SubSeq(text, from, close - 1))>>
                  \o FencedContents(text, close + 1)

Parses(s) == JSONParse(s).ok

\* The three tiers: the parse of the whole text, else the parse of a fenced
\* block whose content parses, else null.
ThreeTier(text) ==
    IF Parses(text) THEN JSONParse(text).val
    ELSE LET good == SelectSeq(FencedContents(text, 1), Parses) IN
         IF good # <<>> THEN JSONParse(good[1]).val ELSE JNull

\* The parts the upstream answer of the exchange carried.
RECURSIVE PartsOf(_)
PartsOf(candidates) ==
    IF candidates = <<>> THEN <<>>
    ELSE Head(candidates) \o PartsOf(Tail(candidates))

RECURSIVE PartTexts(_, _)
PartTexts(parts, kind) ==
    IF parts = <<>> THEN <<>>
    ELSE (IF Head(parts).kind = kind THEN <<Head(parts).s>> ELSE <<>>)
         \o PartTexts(Tail(parts), kind)

\* The buffered exchange ended with a result built from well-formed parts.
ShownBuffered ==
    /\ Shown /\ ~elements.streamingToggle
    /\ \A i \in 1..Len(PartsOf(hist.output)) : PartsOf(hist.output)[i].kind # "null"

OutputText == Concat(PartTexts(PartsOf(hist.output), "text"))

\* C8: the parsedData of the buffered result and the value the page displays
\* are both the three-tier extraction of the final text.
C8_ThreeTierExtraction ==
    ShownBuffered =>
        /\ state.lastResult.parsedData = ThreeTier(OutputText)
        /\ DisplayData(state.lastResult) = ThreeTier(OutputText)

\* C9: for a text that is no JSON and holds no fenced block that parses, the
\* buffered result has success = true, no error field, text, code and
\* codeResults as folded and parsedData null, and the page shows the raw text
\* (`No result` for an empty text) without a call of showError.
C9_ExtractionMissIsNoError ==
    (ShownBuffered /\ ~Parses(OutputText) /\ ThreeTier(OutputText) = JNull) =>
        /\ state.lastResult.success
        /\ "error" \notin state.lastResult.keys
        /\ state.lastResult.text = OutputText
        /\ state.lastResult.code = AsStrings(PartTexts(PartsOf(hist.output), "code"))
        /\ state.lastResult.codeResults =
               AsStrings(PartTexts(PartsOf(hist.output), "result"))
        /\ state.lastResult.parsedData = JNull
        /\ hist.errors = 0
        /\ elements.resultContent =
               Content("text", JNull,
                       IF OutputText # <<>> THEN OutputText ELSE <<"No result">>)

\* C9 witness: prose around a fenced block that does not parse, with code and
\* its output, is shown as raw text.
C9_Witness ==
    /\ ShownBuffered
    /\ hist.output = <<<<TextPart(FenceBad), CodePart(CodeC), ResultPart(OutR)>>>>
    /\ state.lastResult.success
    /\ state.lastResult.parsedData = JNull
    /\ elements.resultContent = Content("text", JNull, FenceBad)
    /\ hist.errors = 0

\* ----------------------------------------------------------------------
\* Properties of the audio session
\* ----------------------------------------------------------------------

\* The inlineData parts of the messages, decoded, message by message and part
\* by part.
RECURSIVE AudioOf(_)
AudioOf(messages) ==
    IF messages = <<>> THEN <<>>
    ELSE PushParts(<<>>, Head(messages).parts) \o AudioOf(Tail(messages))

\* C10: the chunk list is the sequence of the audio parts of the messages
\* that arrived, in arrival order.
C10_ArrivalOrder == audioChunks = AudioOf(ahist.arrived)

\* The first entry of the log that is one of the given kinds, "none" if there
\* is none.
RECURSIVE FirstOf(_, _)
FirstOf(log, kinds) ==
    IF log = <<>> THEN "none"
    ELSE IF Head(log) \in kinds THEN Head(log)
    ELSE FirstOf(Tail(log), kinds)

FirstOutcome == FirstOf(ahist.log, {"turnComplete", "onerror", "connectFailed"})

\* C11: the promise is resolved exactly when a TurnComplete message was
\* observed before any failure, and rejected exactly when a channel error or a
\* connect failure was observed first.
C11_OutcomeStateMachine ==
    /\ sessionComplete = "resolved" <=> FirstOutcome = "turnComplete"
    /\ sessionComplete = "rejected" <=> FirstOutcome \in {"onerror", "connectFailed"}

\* The messages up to and including the first one with turnComplete.
RECURSIVE UpToTurnComplete(_)
UpToTurnComplete(messages) ==
    IF messages = <<>> THEN <<>>
    ELSE IF Head(messages).turnComplete THEN <<Head(messages)>>
    ELSE <<Head(messages)>> \o UpToTurnComplete(Tail(messages))

IsPrefix(p, q) == Len(p) <= Len(q) /\ SubSeq(q, 1, Len(p)) = p

\* C12: every audio part of every message received up to and including the
\* message that signals turnComplete is in the chunk list.
C12_NoAudioDropped ==
    IsPrefix(AudioOf(UpToTurnComplete(ahist.arrived)), audioChunks)

\* C13: on every TurnComplete message the callback calls session.close() and
\* then resolves, whatever the state of the session and without an onclose in
\* between.
C13_ClosesOnTurnComplete ==
    \A i \in 1..Len(ahist.log) :
        ahist.log[i] = "turnComplete" =>
            /\ i + 2 <= Len(ahist.log)
            /\ ahist.log[i + 1] = "close"
            /\ ahist.log[i + 2] = "resolve"

IsSend(entry) == entry \in {"sendRealtimeInput", "sendClientContent"}

\* C14: a send is issued only after connect has completed and never after a
\* TurnComplete (Closed) or a channel error or connect failure (Errored) was
\* observed, and the image is sent before the turn.
C14_SendsOnlyInOpen ==
    /\ \A i \in 1..Len(ahist.log) :
          IsSend(ahist.log[i]) =>
              /\ \E j \in 1..(i - 1) : ahist.log[j] = "connected"
              /\ \A j \in 1..(i - 1) :
                    ahist.log[j] \notin {"onerror", "connectFailed", "turnComplete",
                                         "close"}
    /\ sends \in {<<>>, <<"sendRealtimeInput", "sendClientContent">>}
    /\ sends # <<>> => session # "tdz"

\* C14 witness: the error arrived while connect was pending, the script has
\* ended, and no send was issued.
C14_Witness ==
    /\ FirstOf(ahist.log, {"onerror", "connected"}) = "onerror"
    /\ epc = "connecting" /\ apc = "exit1"
    /\ sends = <<>>

\* A TurnComplete message was observed before any failure and no audio part
\* had arrived by then.
EmptySession ==
    /\ FirstOutcome = "turnComplete"
    /\ AudioOf(UpToTurnComplete(ahist.arrived)) = <<>>

\* C15: a session that received no audio and then TurnComplete is resolved
\* with an empty chunk list, does not end as a failed session does (exit 1),
\* and its chunk list encodes to the 44 header bytes with data length 0.
C15_EmptySessionSucceeds ==
    EmptySession =>
        /\ sessionComplete = "resolved"
        /\ audioChunks = <<>>
        /\ apc # "exit1"
        /\ LET wav == createWavBuffer(audioChunks, SampleRate, Channels, BitDepth)
           IN  /\ ~wav.threw
               /\ Len(wav.bytes) = 44
               /\ SubSeq(wav.bytes, 41, 44) = <<0, 0, 0, 0>>

\* The log has an entry of one of the given kinds.
Did(kinds) == \E i \in 1..Len(ahist.log) : ahist.log[i] \in kinds

\* C16: when the promise is rejected no WAV file is written and no playback is
\* started, whatever had arrived; a WAV file is written only after the promise
\* was resolved.
C16_FailureProducesNoAudio ==
    /\ sessionComplete = "rejected" =>
          /\ ~wavFile.written
          /\ ~Did({"writeFile", "play"})
          /\ apc # "playing"
    /\ wavFile.written => sessionComplete = "resolved"
    /\ \A i \in 1..Len(ahist.log) :
          ahist.log[i] \in {"writeFile", "play"} =>
              \E j \in 1..(i - 1) : ahist.log[j] = "resolve"

\* C16 witness: chunks had arrived, the session failed and the script has
\* ended without a WAV file.
C16_Witness ==
    /\ Len(audioChunks) > 0
    /\ sessionComplete = "rejected"
    /\ apc = "exit1"
    /\ ~wavFile.written

\* ----------------------------------------------------------------------
\* Properties of createWavBuffer
\* ----------------------------------------------------------------------

\* The little-endian number at an offset of a buffer.
readUInt16LE(buf, offset) == buf[offset + 1] + 256 * buf[offset + 2]
readUInt32LE(buf, offset) ==
    readUInt16LE(buf, offset) + 65536 * readUInt16LE(buf, offset + 2)

\* The sum of the lengths of the buffers.
RECURSIVE TotalLength(_)
TotalLength(buffers) ==
    IF buffers = <<>> THEN 0 ELSE Len(Head(buffers)) + TotalLength(Tail(buffers))

\* C17: for the chunk sequences and formats of the bounded input set the
\* buffer has 44 + P bytes, P the sum of the chunk lengths; RIFF size 36 + P,
\* fmt size 16, audio format 1, byte rate sampleRate * channels * bitDepth / 8,
\* block align channels * bitDepth / 8, data length P, and from byte 44 on the
\* chunks in the given order.
C17_HeaderArithmetic ==
    wavOut.called =>
        LET P   == TotalLength(wavIn.pcmBuffers)
            buf == wavOut.bytes
        IN  /\ ~wavOut.threw
            /\ Len(buf) = 44 + P
            /\ SubSeq(buf, 1, 4) = TagRIFF
            /\ readUInt32LE(buf, 4) = 36 + P
            /\ SubSeq(buf, 9, 12) = TagWAVE
            /\ SubSeq(buf, 13, 16) = TagFmt
            /\ readUInt32LE(buf, 16) = 16
            /\ readUInt16LE(buf, 20) = 1
            /\ readUInt16LE(buf, 22) = wavIn.channels
            /\ readUInt32LE(buf, 24) = wavIn.sampleRate
            /\ 8 * readUInt32LE(buf, 28)
                  = wavIn.sampleRate * wavIn.channels * wavIn.bitDepth
            /\ 8 * readUInt16LE(buf, 32) = wavIn.channels * wavIn.bitDepth
            /\ readUInt16LE(buf, 34) = wavIn.bitDepth
            /\ SubSeq(buf, 37, 40) = TagData
            /\ readUInt32LE(buf, 40) = P
            /\ SubSeq(buf, 45, Len(buf)) = Concat(wavIn.pcmBuffers)

\* C17 witness: two different chunks, stereo, 24 bits at 44100 Hz, encoded.
C17_Witness ==
    /\ wavOut.called
    /\ wavIn = [pcmBuffers |-> << <<2, 3>>, <<1>> >>, sampleRate |-> 44100,
                channels |-> 2, bitDepth |-> 24]
    /\ SubSeq(wavOut.bytes, 45, 47) = <<2, 3, 1>>

\* C18: the header fields read back from the buffer are the sampleRate,
\* channels and bitDepth supplied and the total payload length, for all
\* positive inputs that fit their fields; createWavBuffer([]) returns 44 bytes
\* with data length 0 and raises no error.
C18_RoundTrip ==
    /\ wavOut.called =>
          /\ ~wavOut.threw
          /\ readUInt32LE(wavOut.bytes, 24) = wavIn.sampleRate
          /\ readUInt16LE(wavOut.bytes, 22) = wavIn.channels
          /\ readUInt16LE(wavOut.bytes, 34) = wavIn.bitDepth
          /\ readUInt32LE(wavOut.bytes, 40) = TotalLength(wavIn.pcmBuffers)
    /\ LET empty == createWavBuffer(<<>>, SampleRate, Channels, BitDepth)
       IN  /\ ~empty.threw
           /\ Len(empty.bytes) = 44
           /\ readUInt32LE(empty.bytes, 40) = 0

\* ----------------------------------------------------------------------
\* Properties of the requests
\* ----------------------------------------------------------------------

\* C19: a request with neither a file nor imageBase64 is answered with an
\* error and without a model call; the page sends no request while it holds
\* no image; and without the credential the server makes no model call and
\* the audio script attempts no live connection.
C19_MissingInputRejected ==
    /\ \A i \in 1..Len(hist.handled) :
          LET h == hist.handled[i]
          IN  /\ (h.request.file = JUndef /\ ~Truthy(h.request.imageBase64)) =>
                    (h.status = 400 /\ h.call = JUndef)
              /\ ~Truthy(h.key) => h.call = JUndef
    /\ state.currentImageBase64 = JNull => hist.exchanges = 0
    /\ ~Truthy(env.GEMINI_API_KEY) =>
          /\ epc = "idle" /\ channel = "none" /\ sends = <<>>
          /\ apc \in {"start", "exit1"}

\* The position of the first ";base64," of a value that starts with "data:"
\* and a mime type, 0 when the value has no such prefix.
RECURSIVE Base64MarkFrom(_, _)
Base64MarkFrom(s, k) ==
    IF k > Len(s) THEN 0
    ELSE IF s[k] = ";base64," THEN k
    ELSE Base64MarkFrom(s, k + 1)

DeclaredPrefix(s) ==
    IF s # <<>> /\ s[1] = "data:" THEN Base64MarkFrom(s, 3) ELSE 0

\* C20: for an imageBase64 value that starts with data:<mime>;base64, the
\* model is sent the value without that prefix and <mime> as mimeType, for
\* any mime type; a value without such a prefix is sent as it is with
\* mimeType image/png.
C20_DataUriHandling ==
    \A i \in 1..Len(hist.handled) :
        LET h     == hist.handled[i]
            value == h.request.imageBase64.v
            k     == DeclaredPrefix(value)
        IN  (h.request.file = JUndef /\ Truthy(h.request.imageBase64)) =>
                IF k > 0
                THEN /\ h.call.data = SubSeq(value, k + 1, Len(value))
                     /\ h.call.mimeType = SubSeq(value, 2, k - 1)
                ELSE /\ h.call.data = value
                     /\ h.call.mimeType = MimePng

\* ----------------------------------------------------------------------
\* Properties of the scripts
\* ----------------------------------------------------------------------

\* The live session failed: an error or a connect failure came before any
\* TurnComplete message.
SessionFailed == FirstOutcome \in {"onerror", "connectFailed"}

\* A stage of the script has failed: no credential, a capture that failed or
\* returned no bytes, a failed model call or file write, a failed session.
Unrecoverable ==
    \/ ~Truthy(env.GEMINI_API_KEY)
    \/ cli.capture \in {"failed", "empty"}
    \/ Did({"visionFailed", "writeFailed"})
    \/ SessionFailed

\* C21: a script that has met an unrecoverable failure ends with status 1 as
\* soon as main reacts to it, and status 0 is reached only by a run without
\* such a failure.
C21_ExitStatus ==
    /\ apc = "exit0" => ~Unrecoverable
    /\ Unrecoverable => (apc \in {"start", "exit1"} \/ ResumePending)

\* What the script logs before it calls speakAnalysisWithAudio.
StageEntries == {"captured", "vision", "writeAnalysis"}

\* C23: in startup-vision-audio.js the live connection is begun only after
\* the vision stage returned its text and the text was written to the analysis
\* file; after a failed vision stage no connection is begun; and what the
\* audio stage sends is the analysis text and nothing else.
C23_VisionThenAudio ==
    cli.script = "visionAudio" =>
        /\ \A i \in 1..Len(ahist.log) :
              ahist.log[i] \notin StageEntries =>
                  \/ ahist.log[i] \in {"captureFailed", "visionFailed", "writeFailed"}
                  \/ \E j \in 1..(i - 1) : ahist.log[j] = "writeAnalysis"
        /\ epc # "idle" =>
              /\ cli.analysisText.t = "str"
              /\ cli.analysisFile = cli.analysisText
        /\ Did({"visionFailed", "writeFailed"}) =>
              /\ epc = "idle" /\ channel = "none"
              /\ session = "tdz" /\ sends = <<>>
        /\ \A i \in 1..Len(ahist.turn) : ahist.turn[i] = cli.analysisText
        /\ \A i \in 1..Len(sends) : sends[i] = "sendClientContent"

\* The audio stage of startup-vision-audio.js has sent its turn.
C23_Witness ==
    /\ cli.script = "visionAudio"
    /\ Len(ahist.turn) = 1
    /\ sends = <<"sendClientContent">>

\* C28: once onclose has reported the channel closed, the promise of the
\* session is settled.
C28_CloseSettles ==
    (channel = "closed" /\ Did({"onclose"})) => sessionComplete # "pending"

\* The messages before the first one with turnComplete.
RECURSIVE BeforeTurnComplete(_)
BeforeTurnComplete(messages) ==
    IF messages = <<>> \/ Head(messages).turnComplete THEN <<>>
    ELSE <<Head(messages)>> \o BeforeTurnComplete(Tail(messages))

\* The bytes of the WAV file after its 44-byte header.
WavPayload == SliceFrom(wavFile.bytes, 45)

\* C29: a WAV file is written only for a resolved session that received
\* audio, and its payload is the audio of the messages that arrived before
\* the first TurnComplete message, in arrival order; audio that arrives later
\* is not in the file.
C29_FileIsCompletedTurn ==
    wavFile.written =>
        /\ sessionComplete = "resolved"
        /\ AudioOf(BeforeTurnComplete(ahist.arrived)) # <<>>
        /\ WavPayload = Concat(AudioOf(BeforeTurnComplete(ahist.arrived)))

\* The file is written and a message with audio arrived after the
\* TurnComplete message.
C29_Witness ==
    /\ wavFile.written
    /\ Len(AudioOf(ahist.arrived)) > Len(AudioOf(UpToTurnComplete(ahist.arrived)))

\* ----------------------------------------------------------------------
\* Properties of the aggregated result
\* ----------------------------------------------------------------------

\* The fold of parseAgenticResponse over the first k parts of a candidate.
WalkedUpTo(parts, k) ==
    FoldParts([text |-> <<>>, code |-> <<>>, codeResults |-> <<>>,
               threw |-> FALSE], SubSeq(parts, 1, k))

\* Every intermediate value of the server's fold over the parts of an output
\* is a prefix of its final value.
ServerFoldAppends ==
    \A i \in 1..Len(upstream) :
        \A k \in 0..Len(upstream[i]) :
            LET part  == WalkedUpTo(upstream[i], k)
                whole == WalkedUpTo(upstream[i], Len(upstream[i]))
            IN  /\ IsPrefix(part.text, whole.text)
                /\ IsPrefix(part.code, whole.code)
                /\ IsPrefix(part.codeResults, whole.codeResults)

ParseFailed ==
    /\ resp.status = 200 /\ ~req.streaming
    /\ "success" \in resp.body.keys /\ ~resp.body.success

\* C25: a result of parseAgenticResponse with success = false has empty text,
\* no code, no code results, parsedData null, and an error message.
C25_FailedParseIsEmpty ==
    ParseFailed =>
        /\ resp.body.text = <<>>
        /\ resp.body.code = <<>>
        /\ resp.body.codeResults = <<>>
        /\ resp.body.parsedData = JNull
        /\ "error" \in resp.body.keys /\ resp.body.error # <<>>

\* C26: when the model call of a request has failed, the handler completes
\* the response with status 500 and a JSON body that carries the error
\* message, whatever had been written before the failure.
C26_FailureIsOneErrorResponse ==
    (hist.failed /\ spc = "idle") =>
        /\ resp.status = 500
        /\ "error" \in resp.body.keys /\ resp.body.error # <<>>
        /\ resp.ended = "end"

\* The events a chunk calls for: its text first, then one event per code or
\* result part, in the order of the parts.
EventsFor(parts) ==
    LET marks == SelectSeq(parts, LAMBDA p : p.kind \in {"code", "result"})
    IN  (IF parts # <<>> /\ parts[1].kind = "text" /\ parts[1].s # <<>>
         THEN <<[key |-> "chunk", text |-> parts[1].s]>> ELSE <<>>)
        \o [i \in 1..Len(marks) |-> [key |-> marks[i].kind, text |-> marks[i].s]]

RECURSIVE EventsForAll(_)
EventsForAll(chunks) ==
    IF chunks = <<>> THEN <<>>
    ELSE EventsFor(Head(chunks)) \o EventsForAll(Tail(chunks))

\* The chunks of the model output the handler has taken from the stream.
Consumed == SubSeq(hist.output, 1, Len(hist.output) - Len(upstream))

\* The events written so far, without the [DONE] event.
SentData == SelectSeq(hist.sent, LAMBDA e : e.key # "done")

\* C27: the events of a stream follow the upstream chunks in order, within a
\* chunk the text event comes before the code and result events, which follow
\* the order of the parts; the [DONE] event is written at most once, as the
\* last event, and exactly when the upstream stream ended without an error.
C27_EmissionOrder ==
    hist.handled # <<>> =>
        /\ SentData = EventsForAll(Consumed)
        /\ \A i \in 1..Len(hist.sent) :
              hist.sent[i].key = "done" =>
                  /\ i = Len(hist.sent)
                  /\ upstream = <<>> /\ ~hist.failed
        /\ (spc = "idle" /\ resp.ended = "end" /\ resp.status = 200) =>
              /\ hist.sent # <<>>
              /\ hist.sent[Len(hist.sent)].key = "done"
        /\ hist.failed => SentData = hist.sent

\* A stream of two chunks, one with its text and a code part, has ended with
\* the [DONE] event.
C27_Witness ==
    /\ Len(hist.output) = 2
    /\ Len(hist.sent) >= 4
    /\ hist.sent[Len(hist.sent)].key = "done"
    /\ \E i \in 1..Len(hist.sent) : hist.sent[i].key = "code"

\* ----------------------------------------------------------------------
\* Properties of overlapping analyses
\* ----------------------------------------------------------------------

\* Both calls of analyzeImage have shown a result.
BothShown == hist.results = 1 /\ other.pc = "done" /\ cpc = "idle"

\* state.lastResult and the three panes hold what processResult shows for r.
ShowsOnly(r) ==
    /\ state.lastResult = r
    /\ elements.rawContent = r
    /\ elements.codeContent = Join(r.code, "\n\n# ---\n\n")
    /\ elements.resultContent =
          processResult(UI, r).elements.resultContent

\* C24: when two calls of analyzeImage overlapped and both have shown their
\* result, state.lastResult, the raw-data pane, the code pane and the main
\* result pane all show the result of one of the two.
C24_PanesOfOneExchange ==
    BothShown => \E r \in {hist.result, other.result} : ShowsOnly(r)

\* A call of analyzeImage is between its first statement and its finally
\* block.
InFlight == cpc # "idle" \/ other.pc = "running"

\* C30: while a call of analyzeImage is in flight state.isProcessing is true
\* and the analyze button is disabled, so no second call begins; and
\* state.isProcessing is false only when no call is in flight.
C30_OneAnalysisInFlight ==
    /\ InFlight => state.isProcessing /\ elements.analyzeBtnDisabled
    /\ ~(cpc # "idle" /\ other.pc = "running")
    /\ ~state.isProcessing => ~InFlight

\* ----------------------------------------------------------------------
\* Properties of the panes
\* ----------------------------------------------------------------------

\* A call of analyzeImage hands its result to processResult in this step.
HandsOver ==
    \/ hist'.results = hist.results + 1
    \/ other.pc = "running" /\ other'.pc = "done"

\* A call of analyzeImage ends in its catch block in this step.
EndsInError ==
    \/ hist'.errors = hist.errors + 1
    \/ other.pc = "running" /\ other'.pc = "failed"

\* C31: a call of analyzeImage that ends in the error path leaves
\* state.lastResult, the raw-data pane and the code pane as they were; they
\* change only in a step that hands a result to processResult, so nothing a
\* failed exchange had read is visible in them; and when no other call ran
\* meanwhile state.lastResult after the failure is what it was when the
\* exchange began.
C31_FailureLeavesLastResult ==
    [][ /\ ~HandsOver =>
              /\ state'.lastResult = state.lastResult
              /\ elements'.rawContent = elements.rawContent
              /\ elements'.codeContent = elements.codeContent
        /\ EndsInError => ~HandsOver
        /\ (hist'.errors = 1 /\ cpc' = "idle" /\ other'.pc = "none") =>
              state'.lastResult = hist'.before ]_vars

\* The exchange failed after events of it were written, and the panes show
\* the result of the other call, code included.
C31_Witness ==
    /\ hist.errors = 1 /\ cpc = "idle"
    /\ hist.sent # <<>>
    /\ other.pc = "done"
    /\ state.lastResult = other.result
    /\ elements.rawContent = other.result
    /\ elements.codeContent # <<>>

\* The image the processed-image pane should show for a result.
ImageFor(result) == ImageOf(DisplayData(result))

\* C32: once an analysis has completed, the code pane shows exactly the code
\* of state.lastResult, and the processed-image pane shows an image only if
\* the parsed data of state.lastResult carries one, and then that one.
C32_PanesOfLastResult ==
    hist.results > 0 =>
        /\ elements.codeContent = Join(state.lastResult.code, "\n\n# ---\n\n")
        /\ Truthy(elements.processedImage) =>
              /\ Truthy(ImageFor(state.lastResult))
              /\ elements.processedImage = ImageFor(state.lastResult)

====
